---- MODULE Spec2Model ----
(***************************************************************************)
(* A model of ipybridge.nvim's Python backend:                             *)
(*   - the request router of myipy_kernel_client.py (RequestProcessor and  *)
(*     DebugPreviewClient), specification SpecRouter;                      *)
(*   - the debug preview server of bootstrap_helpers.py                    *)
(*     (_DebugPreviewServer and _DebugPreviewContext): specification       *)
(*     SpecServer for the life of the server, SpecContext for the          *)
(*     listening server and the contexts captured beside it.               *)
(*   - the helpers of ipybridge_ns.py, one call at a time: resolve_path    *)
(*     (SpecPath), preview_data (SpecPreview), list_variables and _match   *)
(*     (SpecListing).                                                      *)
(* JSON values are tagged records, so that values of different JSON types  *)
(* can be compared.  None is Null; a key that a dict does not hold is      *)
(* Absent.                                                                 *)
(***************************************************************************)
EXTENDS Integers, Sequences, FiniteSets, TLC

VARIABLES
    \* ---- router process (myipy_kernel_client.py)
    rpc,        \* where process_stream is: "reading", "crashed", "eof"
    nread,      \* input lines consumed so far
    ndecoded,   \* lines for which json.loads succeeded
    reqIds,     \* ids of the JSON-object requests read, in input order
    outIds,     \* ids of the response lines written, in output order
    last,       \* what the latest line was and what the router did with it
    cport,      \* DebugPreviewClient._port (0 stands for None)
    chanPort,   \* KernelChannel._debug_port (0 stands for None)
    \* ---- debug preview server, inside the kernel (bootstrap_helpers.py)
    sport,      \* _DebugPreviewServer._port (0 stands for None)
    ssock,      \* _DebugPreviewServer._socket: "none" or "bound"
    sthread,    \* the accept thread: "none", "accept", "serving", "ended"
    ctx,        \* the _DebugPreviewContext (namespace, frame, scoped, ...)
    limits,     \* _PREVIEW_LIMITS
    conn,       \* the connection the accept thread holds
    obs,        \* observations of the server's history
    \* ---- capture and compute as the two threads interleave them
    capturing,  \* the foreground thread inside _DebugPreviewContext.capture
    computing,  \* the server thread inside _DebugPreviewContext.compute
    \* ---- one call of _myipy_emit_debug_vars (bootstrap_helpers.py)
    pass,       \* the snapshot pass: scope maps, visited, cache, queue, budget
    \* ---- one call of resolve_path (ipybridge_ns.py)
    walk,       \* the path, the namespace and what resolve_path made of them
    \* ---- one call of preview_data, one of list_variables (ipybridge_ns.py)
    view,       \* the name, the object found and the payload made of it
    listing,    \* the namespace, the filters and the variables listed
    \* ---- KernelChannel.run_and_collect (myipy_kernel_client.py)
    chan,       \* the shell replies not read yet, and the latest call
    \* ---- main (myipy_kernel_client.py)
    proc        \* how far main has come, what it wrote, its exit code

routerVars == <<rpc, nread, ndecoded, reqIds, outIds, last, cport, chanPort>>
serverVars == <<sport, ssock, sthread, ctx, limits, conn, obs>>
threadVars == <<capturing, computing>>
passVars == <<pass>>
pathVars == <<walk>>
callVars == <<view, listing>>
channelVars == <<chan>>
mainVars == <<proc>>
restVars == <<threadVars, passVars, pathVars, callVars, channelVars, mainVars>>
vars == <<rpc, nread, ndecoded, reqIds, outIds, last, cport, chanPort,
          sport, ssock, sthread, ctx, limits, conn, obs,
          capturing, computing, pass, walk, view, listing, chan, proc>>

(***************************************************************************)
(* Bounds of the model.                                                    *)
(***************************************************************************)
MaxLines == 3
MaxSnapshots == 2
MaxVars == 2
MaxPathLen == 4
MaxSegs == 2

(***************************************************************************)
(* JSON / Python values.                                                   *)
(***************************************************************************)
Absent == [t |-> "absent"]
Null == [t |-> "null"]
BoolV(b) == [t |-> "bool", b |-> b]
IntV(n) == [t |-> "int", i |-> n]
\* a string whose characters matter (a name, a numeral): a sequence of characters
StrV(s) == [t |-> "str", s |-> s]
\* a message string (an error text)
MsgV(m) == [t |-> "str", m |-> m]
\* a list, by its length only
ListV(n) == [t |-> "list", n |-> n]
\* a payload dict produced in the kernel, by its tag only
DataV(d) == [t |-> "dict", d |-> d]
\* a dict whose keys are read by the code
DictV(f) == [t |-> "dict", f |-> f]

\* Python truthiness: bool(v), `v or default`, `if v:`
Truthy(v) ==
    CASE v.t = "absent" -> FALSE
      [] v.t = "null" -> FALSE
      [] v.t = "bool" -> v.b
      [] v.t = "int" -> v.i # 0
      [] v.t = "str" -> IF "s" \in DOMAIN v THEN v.s # <<>> ELSE v.m # ""
      [] v.t = "list" -> v.n > 0
      [] v.t = "dict" -> IF "f" \in DOMAIN v
                           THEN \E k \in DOMAIN v.f : v.f[k] # Absent
                           ELSE TRUE

IsDict(v) == v.t = "dict"

\* d.get(k): None when the key is missing
Get(d, k) == IF d.f[k] = Absent THEN Null ELSE d.f[k]
\* d.get(k, default)
GetDefault(d, k, default) == IF d.f[k] = Absent THEN default ELSE d.f[k]

DigitVal == [c \in {"0", "1", "2", "3", "4", "5", "6", "7", "8", "9"} |->
                CASE c = "0" -> 0 [] c = "1" -> 1 [] c = "2" -> 2 [] c = "3" -> 3
                  [] c = "4" -> 4 [] c = "5" -> 5 [] c = "6" -> 6 [] c = "7" -> 7
                  [] c = "8" -> 8 [] c = "9" -> 9]

IsDigits(s) == Len(s) > 0 /\ \A k \in 1..Len(s) : s[k] \in DOMAIN DigitVal

RECURSIVE DigitsValue(_)
DigitsValue(s) ==
    IF s = <<>> THEN 0
    ELSE 10 * DigitsValue(SubSeq(s, 1, Len(s) - 1)) + DigitVal[s[Len(s)]]

\* Python's int(v): [ok |-> TRUE, i |-> n], or ok FALSE where int() raises
\* (TypeError for None, a list or a dict; ValueError for a string that is no numeral).
PyInt(v) ==
    CASE v.t = "int" -> [ok |-> TRUE, i |-> v.i]
      [] v.t = "bool" -> [ok |-> TRUE, i |-> IF v.b THEN 1 ELSE 0]
      [] v.t = "str" /\ "s" \in DOMAIN v ->
            IF IsDigits(v.s) THEN [ok |-> TRUE, i |-> DigitsValue(v.s)]
            ELSE IF Len(v.s) > 1 /\ v.s[1] = "-" /\ IsDigits(Tail(v.s))
                 THEN [ok |-> TRUE, i |-> 0 - DigitsValue(Tail(v.s))]
                 ELSE [ok |-> FALSE, i |-> 0]
      [] OTHER -> [ok |-> FALSE, i |-> 0]

(***************************************************************************)
(* The name is put into the code text between single quotes, after         *)
(*     name_esc = str(name).replace("'", "\\'")                            *)
(* and the kernel reads it back as a Python string literal.                *)
(***************************************************************************)
RECURSIVE EscapeName(_)
EscapeName(s) ==
    IF s = <<>> THEN <<>>
    ELSE (IF Head(s) = "'" THEN <<"\\", "'">> ELSE <<Head(s)>>) \o EscapeName(Tail(s))

\* The text of a call after the opening quote of its first argument: the escaped
\* name, the closing quote, and "," for the rest of the argument list (which
\* holds neither a quote nor a backslash).
CallText(name) == EscapeName(name) \o <<"'", ",">>

\* Python's reading of a single-quoted literal whose text after the opening
\* quote is `text`: the characters read so far in `acc`.  A backslash takes the
\* next character with it (\' is a quote, \\ a backslash, an unknown escape such
\* as \z keeps both characters); an unescaped quote ends the literal, and the
\* call is well-formed only if exactly the rest of the argument list follows.
\* With the characters z, ' and \ whatever else follows is a syntax error.
RECURSIVE PyReadLiteral(_, _)
PyReadLiteral(text, acc) ==
    IF text = <<>> THEN [ok |-> FALSE, s |-> <<>>]
    ELSE IF Head(text) = "\\"
    THEN IF Len(text) < 2 THEN [ok |-> FALSE, s |-> <<>>]
         ELSE PyReadLiteral(SubSeq(text, 3, Len(text)),
                            acc \o (IF text[2] \in {"'", "\\"}
                                    THEN <<text[2]>> ELSE <<"\\", text[2]>>))
    ELSE IF Head(text) = "'"
    THEN IF Tail(text) = <<",">> THEN [ok |-> TRUE, s |-> acc]
         ELSE [ok |-> FALSE, s |-> <<>>]
    ELSE PyReadLiteral(Tail(text), acc \o <<Head(text)>>)

\* The first argument the kernel receives for a call built around `name`:
\* [ok |-> TRUE, s |-> the string], or ok FALSE when the code does not compile.
PyNameArg(name) == PyReadLiteral(CallText(name), <<>>)

(***************************************************************************)
(* Inputs of the router: the lines of its input stream.                    *)
(***************************************************************************)
ArgKeys == {"name", "debug", "max_rows", "max_cols", "row_offset", "col_offset",
            "max_repr", "hide_names", "hide_types"}

\* an args object holding the keys of record r and no other
ArgsDict(r) == DictV([k \in ArgKeys |-> IF k \in DOMAIN r THEN r[k] ELSE Absent])

IDs == {IntV(1), IntV(2)}

\* (max_rows, max_cols, row_offset, col_offset) as requested
NoNums == <<Absent, Absent, Absent, Absent>>
PreviewNums ==
    { <<IntV(10), IntV(3), IntV(2), IntV(1)>>,
      <<IntV(0), IntV(0 - 2), IntV(0 - 1), IntV(0 - 3)>>,
      <<StrV(<<"7">>), StrV(<<"z">>), StrV(<<"7">>), StrV(<<"-", "1">>)>>,
      <<Null, BoolV(TRUE), Null, ListV(1)>> }

PreviewNames == {Absent, StrV(<<"z">>), StrV(<<"z", "'">>), StrV(<<"z", "\\">>)}

PreviewArgsOf(n, d, t) ==
    ArgsDict([name |-> n, debug |-> d, max_rows |-> t[1], max_cols |-> t[2],
              row_offset |-> t[3], col_offset |-> t[4]])

\* args of preview requests: debug missing or false, and debug true
PreviewArgs ==
    { PreviewArgsOf(n, Absent, NoNums) : n \in PreviewNames }
    \cup { PreviewArgsOf(StrV(<<"z">>), Absent, t) : t \in PreviewNums }
    \cup { PreviewArgsOf(StrV(<<"z">>), BoolV(FALSE), NoNums),
           PreviewArgsOf(StrV(<<"z">>), BoolV(TRUE), NoNums),
           PreviewArgsOf(StrV(<<"z", "'">>), BoolV(TRUE), <<IntV(5), IntV(4), IntV(0), IntV(0)>>) }

VarsArgs ==
    { ArgsDict([max_repr |-> m]) : m \in {Absent, IntV(50), StrV(<<"7">>), StrV(<<"z">>), Null} }
    \cup { ArgsDict([max_repr |-> IntV(50), hide_names |-> ListV(1), hide_types |-> ListV(2)]) }

Requests ==
    { [id |-> i, op |-> "ping", args |-> a] : i \in IDs, a \in {Absent, StrV(<<"z">>)} }
    \cup { [id |-> i, op |-> o, args |-> Absent] : i \in IDs, o \in {"bogus", "<absent>"} }
    \cup { [id |-> i, op |-> "vars", args |-> a] :
               i \in IDs, a \in VarsArgs \cup {StrV(<<"z">>), ListV(1)} }
    \cup { [id |-> i, op |-> "preview", args |-> a] :
               i \in IDs, a \in PreviewArgs \cup {StrV(<<"z">>), Null} }

\* lines that json.loads decodes to something that is no object
NonObjects == {Null, IntV(5), ListV(1)}

(***************************************************************************)
(* The collaborators' answers.  KernelChannel.run_and_collect returns      *)
(* (True, data, None) or (False, None, err): data is what json.loads made  *)
(* of the collected stdout, err a text that may be empty.                  *)
(***************************************************************************)
ExecOk(d) == [ok |-> TRUE, data |-> d, err |-> Null]
ExecFail(m) == [ok |-> FALSE, data |-> Null, err |-> MsgV(m)]
NoResult == [ok |-> FALSE, data |-> Null, err |-> Null]

ExecResults == {ExecOk(DataV("kernel")), ExecOk(Null), ExecFail("Traceback"), ExecFail("")}

\* the payload of __mi_debug_server_info: {"port": ...}
PortDict(p) == [t |-> "dict", port |-> p]
KernelPort == 5379
InfoResults ==
    { ExecOk(PortDict(IntV(KernelPort))), ExecOk(PortDict(Null)), ExecOk(Null),
      ExecFail("Traceback") }

\* What comes back on the debug preview connection: an exception (refused,
\* timeout), nothing, bytes that are no JSON, or a JSON value.
SockObj(o, d, e) == [t |-> "dict", ok |-> o, data |-> d, error |-> e]
SockReplies ==
    { [k |-> "error", v |-> Null], [k |-> "empty", v |-> Null],
      [k |-> "undecodable", v |-> Null],
      [k |-> "json", v |-> ListV(0)],
      [k |-> "json", v |-> SockObj(BoolV(TRUE), DataV("socket"), Absent)],
      [k |-> "json", v |-> SockObj(BoolV(TRUE), Absent, Absent)],
      [k |-> "json", v |-> SockObj(BoolV(FALSE), Absent, MsgV("decode error: x"))] }
NoReply == [k |-> "none", v |-> Null]

(***************************************************************************)
(* DebugPreviewClient                                                      *)
(***************************************************************************)
\* A call handed to a collaborator: the helper named in the code text (or
\* "socket" for a request sent to the debug preview socket), the name the
\* helper receives, the integers after it and the hide lists of a vars call.
Call(fn, name, a, h) == [fn |-> fn, name |-> name, a |-> a, h |-> h]
PlainName(s) == [ok |-> TRUE, s |-> s]

InfoCall == Call("__mi_debug_server_info", PlainName(<<>>), <<>>, <<>>)

\* ensure_port asks the kernel only when neither the client nor the channel
\* holds a port
NeedsInfo(cp, chp) == cp = 0 /\ ~(chp > 0)

\* ensure_port: the port it returns (0 for None); the client caches what it returns
EnsurePort(cp, chp, info) ==
    IF cp # 0 THEN cp
    ELSE IF chp > 0 THEN chp
    ELSE IF ~info.ok \/ ~IsDict(info.data) THEN 0
    ELSE IF info.data.port.t = "int" /\ info.data.port.i > 0 THEN info.data.port.i
    ELSE 0

Answer(raised, ok, data, err) ==
    [made |-> TRUE, raised |-> raised, ok |-> ok, data |-> data, err |-> err]
NoAnswer == [made |-> FALSE, raised |-> FALSE, ok |-> FALSE, data |-> Null, err |-> Null]

\* d.get(k) on the decoded reply
ReplyGet(v) == IF v = Absent THEN Null ELSE v

\* request: what it returns for port `port` and what came back on the
\* connection; raised when response.get fails on a reply that is no object
ClientRequest(port, reply) ==
    IF port = 0
    THEN Answer(FALSE, FALSE, Null, MsgV("debug preview server unavailable"))
    ELSE CASE reply.k = "error" -> Answer(FALSE, FALSE, Null, MsgV("socket error: x"))
           [] reply.k = "empty" -> Answer(FALSE, FALSE, Null, MsgV("empty response"))
           [] reply.k = "undecodable" -> Answer(FALSE, FALSE, Null, MsgV("decode error: x"))
           [] OTHER ->
                IF ~IsDict(reply.v) THEN Answer(TRUE, FALSE, Null, Null)
                ELSE Answer(FALSE, Truthy(reply.v.ok), ReplyGet(reply.v.data),
                            ReplyGet(reply.v.error))

(***************************************************************************)
(* RequestProcessor                                                        *)
(***************************************************************************)
DefaultMaxRepr == 120
DefaultMaxRows == 30
DefaultMaxCols == 20

NoRequest == [id |-> Absent, op |-> "<absent>", args |-> Absent]

\* req_id = request.get("id")
ReqId(req) == IF req.id = Absent THEN Null ELSE req.id

\* args = request.get("args") or {}
ArgsOf(req) == IF Truthy(req.args) THEN req.args ELSE ArgsDict([name |-> Absent])

\* the branch _handle_request takes
HandlerOf(op) ==
    CASE op = "ping" -> "ping"
      [] op = "vars" -> "vars"
      [] op = "preview" -> "preview"
      [] OTHER -> "unknown"

\* `return int(value)`, or default where int() raised
IntOr(r, default) == IF r.ok THEN r.i ELSE default

\* _int(value, default) of _handle_preview
RouterInt(v, default) == IF v = Null THEN default ELSE IntOr(PyInt(v), default)

\* a faulty variant of ClampOffset: the offset goes out as requested
KeepOffset(n) == n

ClampOffset(n) == IF n < 0 THEN 0 ELSE n

\* name = args.get("name") or ""
NameOf(args) == IF Truthy(Get(args, "name")) THEN Get(args, "name").s ELSE <<>>

DebugMode(args) == Truthy(Get(args, "debug"))

\* max_rows, max_cols, row_offset, col_offset as _handle_preview computes them
PreviewInts(args) ==
    << RouterInt(Get(args, "max_rows"), DefaultMaxRows),
       RouterInt(Get(args, "max_cols"), DefaultMaxCols),
       ClampOffset(RouterInt(Get(args, "row_offset"), 0)),
       ClampOffset(RouterInt(Get(args, "col_offset"), 0)) >>

\* the code text "<fn>('<name_esc>', max_rows=.., max_cols=.., row_offset=.., col_offset=..)"
PreviewCode(fn, args) == Call(fn, PyNameArg(NameOf(args)), PreviewInts(args), <<>>)

\* the request the client sends on the socket: json.dumps of the raw name and the integers
SocketCall(args) == Call("socket", PlainName(NameOf(args)), PreviewInts(args), <<>>)

\* hide_names = args.get("hide_names") or []
HideList(args, k) == IF Truthy(Get(args, k)) THEN Get(args, k) ELSE ListV(0)

VarsCode(args) ==
    Call("__mi_list_vars", PlainName(<<>>),
         <<PyInt(GetDefault(args, "max_repr", IntV(DefaultMaxRepr))).i>>,
         <<HideList(args, "hide_names"), HideList(args, "hide_types")>>)

Response(id, ok, tag, data, error) ==
    [id |-> id, ok |-> ok, tag |-> tag, data |-> data, error |-> error]
NoResponse == Response(Null, FALSE, "<none>", Absent, Absent)

\* err or "<default>"
OrMsg(err, default) == IF Truthy(err) THEN err ELSE MsgV(default)

\* a faulty variant of PongResponse: the pong carries an error text
PongWithError(id) == Response(id, TRUE, "pong", Absent, MsgV("error"))

PongResponse(id) == Response(id, TRUE, "pong", Absent, Absent)
UnknownResponse(id) == Response(id, FALSE, "<absent>", Absent, MsgV("unknown op"))

\* _handle_vars and the non-debug branch of _handle_preview
ExecResponse(id, tag, r) ==
    Response(id, r.ok, tag,
             IF r.ok THEN r.data ELSE Absent,
             IF r.ok THEN Absent ELSE OrMsg(r.err, "error"))

\* the debug branch of _handle_preview
DebugResponse(id, r) ==
    Response(id, r.ok, "preview",
             IF r.ok /\ r.data # Null THEN r.data ELSE Absent,
             IF r.ok /\ r.data # Null THEN Absent ELSE OrMsg(r.err, "debug preview failed"))

\* a faulty variant of FallsBack: the execution channel is tried whatever the socket gave
FallsBackAlways(ok) == TRUE

\* `if not ok:` after the socket attempt
FallsBack(ok) == ~ok

(***************************************************************************)
(* process_stream, one action per line read.  A handler runs to its end    *)
(* before the next line is read, so each action is a whole iteration of    *)
(* the loop, the collaborators' answers being inputs.  An exception that   *)
(* no handler catches leaves process_stream and main: rpc = "crashed".     *)
(***************************************************************************)
\* what `last` holds for a line
Step(kind, req, trace, att, fb, wrote, resp) ==
    [kind |-> kind, req |-> req, trace |-> trace, att |-> att, fb |-> fb,
     wrote |-> wrote, resp |-> resp]

NoStep == Step("none", NoRequest, <<>>, NoAnswer, NoResult, FALSE, NoResponse)

RouterInit ==
    /\ rpc = "reading"
    /\ nread = 0
    /\ ndecoded = 0
    /\ reqIds = <<>>
    /\ outIds = <<>>
    /\ last = NoStep
    /\ cport = 0
    /\ chanPort \in {0, KernelPort}

CanRead == rpc = "reading" /\ nread < MaxLines

\* a line that is no request: nothing decoded, nothing written
Skipped(kind) ==
    /\ nread' = nread + 1
    /\ last' = Step(kind, NoRequest, <<>>, NoAnswer, NoResult, FALSE, NoResponse)
    /\ UNCHANGED <<rpc, ndecoded, reqIds, outIds, cport, chanPort>>
    /\ UNCHANGED <<serverVars, restVars>>

\* a request handled to the end: its response is written and flushed
Answered(req, trace, att, fb, resp, port) ==
    /\ nread' = nread + 1
    /\ ndecoded' = ndecoded + 1
    /\ reqIds' = Append(reqIds, ReqId(req))
    /\ outIds' = Append(outIds, resp.id)
    /\ last' = Step("request", req, trace, att, fb, TRUE, resp)
    /\ cport' = port
    /\ UNCHANGED <<rpc, chanPort>>
    /\ UNCHANGED <<serverVars, restVars>>

\* a request whose handler raised: no response, process_stream is left
Raised(req, trace, att, port) ==
    /\ nread' = nread + 1
    /\ ndecoded' = ndecoded + 1
    /\ reqIds' = Append(reqIds, ReqId(req))
    /\ last' = Step("request", req, trace, att, NoResult, FALSE, NoResponse)
    /\ rpc' = "crashed"
    /\ cport' = port
    /\ UNCHANGED <<outIds, chanPort>>
    /\ UNCHANGED <<serverVars, restVars>>

\* `if not line: continue`
ReadBlank == CanRead /\ Skipped("blank")

\* json.loads raises: `continue`
ReadUndecodable == CanRead /\ Skipped("undecodable")

\* json.loads gives a value that is no object: request.get raises
ReadNonObject ==
    /\ CanRead
    /\ \E v \in NonObjects :
        /\ ~IsDict(v)
        /\ nread' = nread + 1
        /\ ndecoded' = ndecoded + 1
        /\ last' = Step("nonobject", NoRequest, <<>>, NoAnswer, NoResult, FALSE, NoResponse)
        /\ rpc' = "crashed"
        /\ UNCHANGED <<reqIds, outIds, cport, chanPort>>
        /\ UNCHANGED <<serverVars, restVars>>

HandlePing ==
    /\ CanRead
    /\ \E req \in Requests :
        /\ HandlerOf(req.op) = "ping"
        /\ Answered(req, <<>>, NoAnswer, NoResult, PongResponse(ReqId(req)), cport)

HandleUnknown ==
    /\ CanRead
    /\ \E req \in Requests :
        /\ HandlerOf(req.op) = "unknown"
        /\ Answered(req, <<>>, NoAnswer, NoResult, UnknownResponse(ReqId(req)), cport)

\* _handle_vars: args.get raises on args that are no object, int() on a
\* max_repr that is no number
HandleVars ==
    /\ CanRead
    /\ \E req \in Requests :
        /\ HandlerOf(req.op) = "vars"
        /\ LET args == ArgsOf(req) IN
           IF ~IsDict(args) \/ ~PyInt(GetDefault(args, "max_repr", IntV(DefaultMaxRepr))).ok
           THEN Raised(req, <<>>, NoAnswer, cport)
           ELSE \E r \in ExecResults :
                  Answered(req, <<VarsCode(args)>>, NoAnswer, r,
                           ExecResponse(ReqId(req), "vars", r), cport)

\* _handle_preview with debug_mode false
HandlePreviewExec ==
    /\ CanRead
    /\ \E req \in Requests :
        /\ HandlerOf(req.op) = "preview"
        /\ LET args == ArgsOf(req) IN
           IF ~IsDict(args)
           THEN Raised(req, <<>>, NoAnswer, cport)
           ELSE /\ ~DebugMode(args)
                /\ \E r \in ExecResults :
                     Answered(req, <<PreviewCode("__mi_preview", args)>>, NoAnswer, r,
                              ExecResponse(ReqId(req), "preview", r), cport)

\* _handle_preview with debug_mode true: the socket first (the client looking
\* the port up if it has none), then the execution channel if that failed
HandlePreviewDebug ==
    /\ CanRead
    /\ \E req \in Requests :
        /\ HandlerOf(req.op) = "preview"
        /\ IsDict(ArgsOf(req))
        /\ DebugMode(ArgsOf(req))
        /\ \E info \in (IF NeedsInfo(cport, chanPort) THEN InfoResults ELSE {NoResult}) :
           LET args == ArgsOf(req)
               port == EnsurePort(cport, chanPort, info)
               looked == IF NeedsInfo(cport, chanPort) THEN <<InfoCall>> ELSE <<>>
               sent == IF port # 0 THEN <<SocketCall(args)>> ELSE <<>>
           IN
           \E reply \in (IF port # 0 THEN SockReplies ELSE {NoReply}) :
              LET att == ClientRequest(port, reply) IN
              IF att.raised
              THEN Raised(req, looked \o sent, att, port)
              ELSE IF FallsBack(att.ok)
              THEN \E r \in ExecResults :
                     Answered(req,
                              looked \o sent \o <<PreviewCode("__mi_debug_preview", args)>>,
                              att, r, DebugResponse(ReqId(req), r), port)
              ELSE Answered(req, looked \o sent, att, NoResult,
                            DebugResponse(ReqId(req), [ok |-> att.ok, data |-> att.data,
                                                       err |-> att.err]),
                            port)

\* the input stream ends: process_stream returns
EndOfStream ==
    /\ rpc = "reading"
    /\ rpc' = "eof"
    /\ UNCHANGED <<nread, ndecoded, reqIds, outIds, last, cport, chanPort>>
    /\ UNCHANGED <<serverVars, restVars>>

RouterNext ==
    \/ ReadBlank
    \/ ReadUndecodable
    \/ ReadNonObject
    \/ HandlePing
    \/ HandleUnknown
    \/ HandleVars
    \/ HandlePreviewExec
    \/ HandlePreviewDebug
    \/ EndOfStream

(***************************************************************************)
(* The debug preview server and its context, inside the kernel.            *)
(***************************************************************************)
LimitRows == 30
LimitCols == 20

\* `return int(value)`, or default where int() raised
CoerceOr(r, default) == IF r.ok THEN r.i ELSE default

\* _coerce_int(value, default)
CoerceInt(v, default) == IF v = Null THEN default ELSE CoerceOr(PyInt(v), default)

\* `if row_base < 0: row_base = 0`
OffsetBase(n) == IF n < 0 THEN 0 ELSE n

\* `_PREVIEW_LIMITS.get(k) or <default>`
LimitOr(n, default) == IF n # 0 THEN n ELSE default

\* A namespace is a dict: the names it binds, and gen, which tells the dict
\* objects apart (0: built from the live globals, n: built by the n-th snapshot).
NoNamespace == [t |-> "null"]
Namespace(names, gen) == [t |-> "dict", names |-> names, gen |-> gen]
\* _myipy_current_namespace(): collect_namespace(globals()), never empty
LiveNamespace == Namespace({"x"}, 0)
\* _myipy_current_namespace(frame): the frame's globals and locals merged
FrameNamespace(frame) == Namespace({"x", "y"}, 0)

\* _DebugPreviewContext.__init__ (frame 0 stands for None; frame_id is id(frame),
\* set and cleared together with frame)
ContextInit ==
    [namespace |-> NoNamespace, frame |-> 0, scoped |-> FALSE,
     rows |-> LimitOr(LimitRows, 30), cols |-> LimitOr(LimitCols, 20),
     globals |-> NoNamespace]

\* capture(frame, namespace, rows, cols), lim being _PREVIEW_LIMITS
Capture(c, lim, frame, namespace, rows, cols) ==
    LET ns1 == IF frame # 0 /\ IsDict(namespace) THEN namespace ELSE c.namespace
        fr1 == IF frame # 0 THEN frame ELSE c.frame
        gl1 == IF frame = 0 /\ IsDict(namespace) THEN namespace ELSE c.globals
        ns2 == IF frame = 0 /\ fr1 = 0 /\ IsDict(namespace) THEN namespace ELSE ns1
        r1 == CoerceInt(rows, c.rows)
        c1 == CoerceInt(cols, c.cols)
    IN [namespace |-> ns2, frame |-> fr1, scoped |-> frame # 0,
        rows |-> IF r1 <= 0 THEN LimitOr(lim.rows, 30) ELSE r1,
        cols |-> IF c1 <= 0 THEN LimitOr(lim.cols, 20) ELSE c1,
        globals |-> gl1]

\* A preview payload: {"name": .., "kind": ..} or {"name": .., "error": ..}
Payload(name, kind, error) == [name |-> name, kind |-> kind, error |-> error]

\* The parameters preview_data declares.
PreviewDataParams == {"name", "namespace", "max_rows", "max_cols"}

\* preview_data(name, namespace, max_rows, max_cols) on a namespace that is
\* not empty: the first identifier of the path is looked up in the namespace;
\* a plain value previews as kind "object".
PreviewData(name, namespace, rows, cols) ==
    IF ~(name.t = "str") THEN Payload(name, "<none>", MsgV("path is not a string"))
    ELSE IF name.m \notin namespace.names THEN Payload(name, "<none>", MsgV("Name not found"))
    ELSE Payload(name, "object", Absent)

\* A call of preview_data with the keyword arguments kw: Python raises
\* TypeError before the body runs when a keyword is no parameter.
CallPreviewData(kw, name, namespace, rows, cols) ==
    IF kw \subseteq PreviewDataParams
    THEN [raised |-> FALSE, payload |-> PreviewData(name, namespace, rows, cols)]
    ELSE [raised |-> TRUE, payload |-> Payload(name, "<none>", Absent)]

\* the keywords compute passes to preview_data
ComputeKeywords == {"name", "namespace", "max_rows", "max_cols", "row_offset", "col_offset"}

\* `if effective_rows <= 0: effective_rows = self.rows`
PositiveOr(n, default) == IF n <= 0 THEN default ELSE n

\* The namespace compute works on, and what it leaves in self.namespace: the
\* stored namespace, else one rebuilt from the stored frame (and stored), else
\* the stored globals, else one rebuilt from the live globals (and stored).
ResolveNamespace(c) ==
    IF IsDict(c.namespace) THEN [ns |-> c.namespace, stored |-> c.namespace]
    ELSE IF c.frame # 0
    THEN [ns |-> FrameNamespace(c.frame), stored |-> FrameNamespace(c.frame)]
    ELSE IF IsDict(c.globals) THEN [ns |-> c.globals, stored |-> c.namespace]
    ELSE [ns |-> LiveNamespace, stored |-> LiveNamespace]

\* the end of compute: the payload, the context it leaves, and what it passed on
ComputeWith(c, name, er, ec, rb, cb, found, res) ==
    [payload |-> IF found.ns.names = {}
                 THEN Payload(name, "<none>", MsgV("debug namespace unavailable"))
                 ELSE IF res.raised
                 THEN Payload(name, "<none>", MsgV("preview error: x"))
                 ELSE res.payload,
     ctx |-> [c EXCEPT !.namespace = found.stored],
     used |-> [namespace |-> found.ns, rows |-> er, cols |-> ec, row_offset |-> rb,
               col_offset |-> cb]]

ComputeOn(c, name, er, ec, rb, cb, found) ==
    ComputeWith(c, name, er, ec, rb, cb, found,
                CallPreviewData(ComputeKeywords, name, found.ns, er, ec))

\* compute(name, rows, cols, row_offset, col_offset) on context c
Compute(c, name, rows, cols, row_offset, col_offset) ==
    ComputeOn(c, name,
              PositiveOr(CoerceInt(rows, c.rows), c.rows),
              PositiveOr(CoerceInt(cols, c.cols), c.cols),
              OffsetBase(CoerceInt(row_offset, 0)),
              OffsetBase(CoerceInt(col_offset, 0)),
              ResolveNamespace(c))

(***************************************************************************)
(* _DebugPreviewServer: what a peer sends on a connection, and the reply.  *)
(***************************************************************************)
\* a request object {"name", "max_rows", "max_cols", "row_offset", "col_offset"};
\* e is its "_error" key, which _read_request sets for bytes it cannot decode
PeerObj(e, name, t) ==
    [t |-> "dict", e |-> e, name |-> name, max_rows |-> t[1], max_cols |-> t[2],
     row_offset |-> t[3], col_offset |-> t[4]]

NoPeerNums == <<Null, Null, Null, Null>>
PeerNums ==
    { <<IntV(5), IntV(4), IntV(0), IntV(0)>>,
      <<IntV(0), IntV(0 - 2), IntV(0 - 1), IntV(3)>>,
      <<StrV(<<"7">>), StrV(<<"z">>), ListV(1), StrV(<<"-", "1">>)>>,
      <<IntV(5), IntV(4), StrV(<<"7">>), IntV(2)>> }

PeerNames == {MsgV("x"), MsgV("missing"), Null}

\* What the peer does on its connection: recv fails, the peer closes without
\* sending, or it sends a line (bytes that are no JSON, or a JSON value).
PeerSends ==
    { [k |-> "recv_error", v |-> Null], [k |-> "closed", v |-> Null],
      [k |-> "undecodable", v |-> Null],
      [k |-> "json", v |-> ListV(1)],
      [k |-> "json", v |-> PeerObj(MsgV("peer"), Null, NoPeerNums)] }
    \cup { [k |-> "json", v |-> PeerObj(Absent, n, NoPeerNums)] : n \in PeerNames }
    \cup { [k |-> "json", v |-> PeerObj(Absent, MsgV("x"), t)] : t \in PeerNums }
NothingSent == [k |-> "none", v |-> Null]

\* _read_request: raised (recv failed), or the request: None, the decode-error
\* object, or the decoded JSON value
ReadRequest(sent) ==
    CASE sent.k = "recv_error" -> [raised |-> TRUE, request |-> Null]
      [] sent.k = "closed" -> [raised |-> FALSE, request |-> Null]
      [] sent.k = "undecodable" ->
            [raised |-> FALSE,
             request |-> PeerObj(MsgV("decode error: x"), Null, NoPeerNums)]
      [] OTHER -> [raised |-> FALSE, request |-> sent.v]

ServerReply(ok, data, error) == [ok |-> ok, data |-> data, error |-> error]
NoServerReply == [ok |-> FALSE, data |-> Absent, error |-> Absent]
NoUse == [namespace |-> NoNamespace, rows |-> 0, cols |-> 0, row_offset |-> 0,
          col_offset |-> 0]

\* _build_response on context c: raised (request.get on a value that is no
\* object), or the reply, the context compute leaves and what compute used
\* err = request.get("_error") if isinstance(request, dict) else None
RequestError(request) ==
    IF IsDict(request) /\ request.e # Absent THEN request.e ELSE Null

\* result = {"ok": True, "data": data}
ComputedReply(r) ==
    [raised |-> FALSE, reply |-> ServerReply(TRUE, r.payload, Absent), ctx |-> r.ctx,
     used |-> r.used]

BuildResponse(c, request) ==
    IF Truthy(RequestError(request))
    THEN [raised |-> FALSE, reply |-> ServerReply(FALSE, Absent, RequestError(request)),
          ctx |-> c, used |-> NoUse]
    ELSE IF ~IsDict(request)
    THEN [raised |-> TRUE, reply |-> NoServerReply, ctx |-> c, used |-> NoUse]
    ELSE ComputedReply(Compute(c, request.name, request.max_rows, request.max_cols,
                               request.row_offset, request.col_offset))

\* One pass of the body of _serve's loop for an accepted connection: whether a
\* reply reached the peer, which fault the body met, and the context it leaves.
\* sendOk is whether sendall works.
ServeBuilt(c, br, sendOk) ==
    IF br.raised
    THEN [wrote |-> FALSE, reply |-> NoServerReply, fault |-> "build", ctx |-> c,
          used |-> NoUse]
    ELSE IF ~sendOk
    THEN [wrote |-> FALSE, reply |-> NoServerReply, fault |-> "send", ctx |-> br.ctx,
          used |-> br.used]
    ELSE [wrote |-> TRUE, reply |-> br.reply, fault |-> "none", ctx |-> br.ctx,
          used |-> br.used]

ServeRead(c, rd, sendOk) ==
    IF rd.raised
    THEN [wrote |-> FALSE, reply |-> NoServerReply, fault |-> "recv", ctx |-> c,
          used |-> NoUse]
    ELSE IF rd.request = Null
    THEN [wrote |-> FALSE, reply |-> NoServerReply, fault |-> "none", ctx |-> c,
          used |-> NoUse]
    ELSE ServeBuilt(c, BuildResponse(c, rd.request), sendOk)

ServeBody(c, sent, sendOk) == ServeRead(c, ReadRequest(sent), sendOk)

\* a faulty variant of ThreadAfterServe: a fault in the body ends the thread
ThreadEndsOnFault(fault) == IF fault = "none" THEN "accept" ELSE "ended"

\* where the accept thread goes after the body: `except Exception` swallows
\* every fault, and `continue` goes back to accept as well
ThreadAfterServe(fault) == "accept"

\* `finally: conn.close()` runs on every way out of the body
ConnAfterServe(fault) == "closed"

\* a faulty variant of EarlyReturn: every call binds anew
EarlyReturnNever(port) == FALSE

\* `if self._port: return self._port`
EarlyReturn(port) == port # 0

\* server.getsockname()[1] of a new socket
Ports == {5379, 5380}

NoConn == [state |-> "none", sent |-> NothingSent, wrote |-> FALSE,
           reply |-> NoServerReply, fault |-> "none", used |-> NoUse]

\* The module's objects as constructed, before the ensure_running call that
\* ends the bootstrap module.
ServerInit ==
    /\ sport = 0
    /\ ssock = "none"
    /\ sthread = "none"
    /\ ctx = ContextInit
    /\ limits = [rows |-> LimitRows, cols |-> LimitCols]
    /\ conn = NoConn
    /\ obs = [binds |-> 0, threads |-> 0, ret |-> 0, bind |-> "-", first |-> 0,
              faulted |-> FALSE, snapshots |-> 0]

\* The state the bootstrap module leaves when its closing ensure_running call
\* has bound a socket: the server listens.
ListeningInit ==
    /\ sport = KernelPort
    /\ ssock = "bound"
    /\ sthread = "accept"
    /\ ctx = ContextInit
    /\ limits = [rows |-> LimitRows, cols |-> LimitCols]
    /\ conn = NoConn
    /\ obs = [binds |-> 1, threads |-> 1, ret |-> KernelPort, bind |-> "ok",
              first |-> KernelPort, faulted |-> FALSE, snapshots |-> 0]


(***************************************************************************)
(* Actions of the kernel side.  ensure_running, the snapshot hook and the  *)
(* preview helpers run on the kernel's foreground thread; Accept,          *)
(* AcceptError and ServeConn are the steps of the accept thread.           *)
(***************************************************************************)
\* ensure_running, bind being what creating the listening socket does:
\* "fail" (an exception), "invalid" (no port) or "ok" with port p.
\* obs keeps what the call returned and how many sockets and threads were kept.
EnsureRunning ==
    /\ \E bind \in {"fail", "invalid", "ok"}, p \in Ports :
        IF EarlyReturn(sport)
        THEN /\ obs' = [obs EXCEPT !.ret = sport, !.bind = "cached"]
             /\ UNCHANGED <<sport, ssock, sthread>>
        ELSE IF bind = "fail"
        THEN /\ obs' = [obs EXCEPT !.ret = 0, !.bind = "fail"]
             /\ UNCHANGED <<sport, ssock, sthread>>
        ELSE IF bind = "invalid"
        THEN /\ obs' = [obs EXCEPT !.ret = 0, !.bind = "invalid"]
             /\ ssock' = "none"
             /\ UNCHANGED <<sport, sthread>>
        ELSE /\ obs' = [obs EXCEPT !.ret = p, !.bind = "ok", !.binds = @ + 1,
                                   !.threads = @ + 1,
                                   !.first = IF @ = 0 THEN p ELSE @]
             /\ ssock' = "bound"
             /\ sthread' = "accept"
             /\ sport' = p
    /\ UNCHANGED <<ctx, limits, conn>>
    /\ UNCHANGED <<routerVars, restVars>>

\* server.accept() returns a connection
Accept ==
    /\ sthread = "accept"
    /\ sthread' = "serving"
    /\ conn' = [NoConn EXCEPT !.state = "open"]
    /\ UNCHANGED <<sport, ssock, ctx, limits, obs>>
    /\ UNCHANGED <<routerVars, restVars>>

\* server.accept() raises: `break`, the thread ends
AcceptError ==
    /\ sthread = "accept"
    /\ sthread' = "ended"
    /\ UNCHANGED <<sport, ssock, ctx, limits, conn, obs>>
    /\ UNCHANGED <<routerVars, restVars>>

\* what the body of the loop leaves, b being its outcome for what the peer sent
Served(sent, b) ==
    /\ conn' = [state |-> ConnAfterServe(b.fault), sent |-> sent, wrote |-> b.wrote,
                reply |-> b.reply, fault |-> b.fault, used |-> b.used]
    /\ sthread' = ThreadAfterServe(b.fault)
    /\ ctx' = b.ctx
    /\ obs' = [obs EXCEPT !.faulted = @ \/ b.fault # "none"]

\* the body of the loop for the accepted connection
ServeConn ==
    /\ sthread = "serving"
    /\ \E sent \in PeerSends, sendOk \in BOOLEAN :
        Served(sent, ServeBody(ctx, sent, sendOk))
    /\ UNCHANGED <<sport, ssock, limits>>
    /\ UNCHANGED <<routerVars, restVars>>

\* _myipy_emit_debug_vars(frame) as far as the context goes: the namespace it
\* builds (for the frame, or from the globals when frame is None, here 0) is
\* captured with the current limits
Snapshot ==
    /\ obs.snapshots < MaxSnapshots
    /\ \E frame \in {0, 1}, names \in {{"x"}, {"x", "y"}} :
        /\ ctx' = Capture(ctx, limits, frame, Namespace(names, obs.snapshots + 1),
                          IntV(LimitOr(limits.rows, 30)), IntV(LimitOr(limits.cols, 20)))
        /\ obs' = [obs EXCEPT !.snapshots = @ + 1]
    /\ UNCHANGED <<sport, ssock, sthread, limits, conn>>
    /\ UNCHANGED <<routerVars, restVars>>

\* the limits the router passes to __mi_preview
MiPreviewLimits == { <<IntV(10), IntV(3)>>, <<IntV(0), IntV(0 - 2)>> }

\* __mi_preview(name, max_rows, max_cols, ...) as far as _PREVIEW_LIMITS goes
MiPreview ==
    /\ \E t \in MiPreviewLimits :
        limits' = [rows |-> CoerceInt(t[1], LimitOr(limits.rows, 30)),
                   cols |-> CoerceInt(t[2], LimitOr(limits.cols, 20))]
    /\ UNCHANGED <<sport, ssock, sthread, ctx, conn, obs>>
    /\ UNCHANGED <<routerVars, restVars>>

(***************************************************************************)
(* capture and compute line by line.  capture runs on the foreground       *)
(* thread, compute on the server thread, and neither takes a lock: every   *)
(* store to and load from the context is a step of its own, and the steps  *)
(* of the two threads interleave freely.                                   *)
(***************************************************************************)
\* what a compute that brings no limits of its own works with in context c:
\* the namespace, the row limit and the column limit
WholeOf(c) == <<ResolveNamespace(c).ns, c.rows, c.cols>>

\* the foreground thread outside capture; n counts the captures begun and
\* whole collects WholeOf the context as each capture left it
NoCapture ==
    [pc |-> 0, frame |-> 0, ns |-> NoNamespace, rows |-> Null, cols |-> Null,
     n |-> 0, whole |-> {WholeOf(ContextInit)}]

\* the server thread outside compute
NoCompute ==
    [pc |-> 0, rows |-> Null, cols |-> Null, er |-> 0, ec |-> 0,
     ns |-> NoNamespace, fr |-> 0, done |-> FALSE]

ThreadsIdle == capturing = NoCapture /\ computing = NoCompute


\* The context after the pc-th store of capture(a.frame, a.ns, a.rows, a.cols):
\* with a frame namespace, frame (with frame_id), scoped; without one scoped,
\* globals, namespace (only while no frame is stored); then rows, the rows
\* default, cols, the cols default.
CaptureWrite(c, lim, a, pc) ==
    IF pc = 1 THEN (IF a.frame # 0
                    THEN (IF IsDict(a.ns) THEN [c EXCEPT !.namespace = a.ns] ELSE c)
                    ELSE [c EXCEPT !.scoped = FALSE])
    ELSE IF pc = 2 THEN (IF a.frame # 0
                         THEN [c EXCEPT !.frame = a.frame]
                         ELSE (IF IsDict(a.ns) THEN [c EXCEPT !.globals = a.ns] ELSE c))
    ELSE IF pc = 3 THEN (IF a.frame # 0
                         THEN [c EXCEPT !.scoped = TRUE]
                         ELSE (IF c.frame = 0 /\ IsDict(a.ns)
                               THEN [c EXCEPT !.namespace = a.ns] ELSE c))
    ELSE IF pc = 4 THEN [c EXCEPT !.rows = CoerceInt(a.rows, c.rows)]
    ELSE IF pc = 5 THEN (IF c.rows <= 0 THEN [c EXCEPT !.rows = LimitOr(lim.rows, 30)] ELSE c)
    ELSE IF pc = 6 THEN [c EXCEPT !.cols = CoerceInt(a.cols, c.cols)]
    ELSE (IF c.cols <= 0 THEN [c EXCEPT !.cols = LimitOr(lim.cols, 20)] ELSE c)

CaptureLines == 7

\* _myipy_emit_debug_vars reaches its capture call: the namespace it built
\* (numbered in the order of the captures) and the current limits are the
\* arguments
CaptureBegin ==
    /\ capturing.pc = 0
    /\ capturing.n < MaxSnapshots
    /\ \E frame \in {0, 1} :
        capturing' = [capturing EXCEPT !.pc = 1, !.frame = frame,
                                       !.ns = Namespace({"x"}, capturing.n + 1),
                                       !.rows = IntV(LimitOr(limits.rows, 30)),
                                       !.cols = IntV(LimitOr(limits.cols, 20)),
                                       !.n = @ + 1]
    /\ UNCHANGED <<serverVars, routerVars, computing, passVars, pathVars, callVars, channelVars, mainVars>>

\* the context becomes c1 by the next store of capture; after the last one
\* capture returns
CaptureTo(c1) ==
    /\ ctx' = c1
    /\ capturing' = IF capturing.pc = CaptureLines
                    THEN [NoCapture EXCEPT !.n = capturing.n,
                                           !.whole = capturing.whole \cup {WholeOf(c1)}]
                    ELSE [capturing EXCEPT !.pc = @ + 1]

CaptureLine ==
    /\ capturing.pc > 0
    /\ CaptureTo(CaptureWrite(ctx, limits, capturing, capturing.pc))
    /\ UNCHANGED <<sport, ssock, sthread, limits, conn, obs>>
    /\ UNCHANGED <<routerVars, computing, passVars, pathVars, callVars, channelVars, mainVars>>

\* __mi_preview changes _PREVIEW_LIMITS; it runs on the foreground thread, so
\* never inside a capture
MiPreviewOutsideCapture == capturing.pc = 0 /\ MiPreview

\* max_rows and max_cols of the requests compute gets
ComputeLimits == { <<Null, Null>>, <<IntV(0), IntV(0)>>, <<IntV(5), IntV(4)>> }

\* _build_response calls compute for a request
ComputeBegin ==
    /\ computing.pc = 0
    /\ \E t \in ComputeLimits :
        computing' = [NoCompute EXCEPT !.pc = 1, !.rows = t[1], !.cols = t[2]]
    /\ UNCHANGED <<serverVars, routerVars, capturing, passVars, pathVars, callVars, channelVars, mainVars>>

\* whether compute, having loaded namespace ns and frame fr, rebuilds a
\* namespace and stores it in the context c
Rebuilds(c, ns, fr) == ~IsDict(ns) /\ (fr # 0 \/ ~IsDict(c.globals))

\* The server thread after the pc-th step of compute in context c: the loads of
\* self.rows and self.cols for the defaults, the loads again for limits that
\* are not positive, the load of self.namespace and self.frame, and the choice
\* of the namespace to serve from, after which preview_data is called.
ComputeRead(c, k, pc) ==
    IF pc = 1 THEN [k EXCEPT !.pc = 2, !.er = CoerceInt(k.rows, c.rows)]
    ELSE IF pc = 2 THEN [k EXCEPT !.pc = 3, !.ec = CoerceInt(k.cols, c.cols)]
    ELSE IF pc = 3 THEN [k EXCEPT !.pc = 4, !.er = PositiveOr(k.er, c.rows)]
    ELSE IF pc = 4 THEN [k EXCEPT !.pc = 5, !.ec = PositiveOr(k.ec, c.cols)]
    ELSE IF pc = 5 THEN [k EXCEPT !.pc = 6,
                                  !.ns = IF IsDict(c.namespace) THEN c.namespace ELSE NoNamespace,
                                  !.fr = c.frame]
    ELSE [k EXCEPT !.pc = 0, !.done = TRUE,
                   !.ns = ResolveNamespace([c EXCEPT !.namespace = k.ns, !.frame = k.fr]).ns]

\* the store compute makes at its pc-th step, if any
ComputeWrite(c, k, pc) ==
    IF pc = 6 /\ Rebuilds(c, k.ns, k.fr)
    THEN [c EXCEPT !.namespace = ResolveNamespace([c EXCEPT !.namespace = k.ns, !.frame = k.fr]).ns]
    ELSE c

ComputeLine ==
    /\ computing.pc > 0
    /\ computing' = ComputeRead(ctx, computing, computing.pc)
    /\ ctx' = ComputeWrite(ctx, computing, computing.pc)
    /\ UNCHANGED <<sport, ssock, sthread, limits, conn, obs>>
    /\ UNCHANGED <<routerVars, capturing, passVars, pathVars, callVars, channelVars, mainVars>>

(***************************************************************************)
(* The snapshot pass of _myipy_emit_debug_vars.  A variable is named by a  *)
(* number, a path by the sequence of its segments: <<v>> is variable v and *)
(* Append(p, c) is the child of p for column (or field) c.  What the       *)
(* namespace holds is given by a shape: how many locals and globals there  *)
(* are, how many columns the preview of a variable and the preview of a    *)
(* child list, and whether a preview lists its first column twice (column  *)
(* labels need not be distinct).                                           *)
(***************************************************************************)
\* _MAX_CHILD_PREVIEWS
MaxChildPreviews == 40

\* numbers of columns of a preview: none (no record or table), one, a few,
\* more than the budget
Fans == {0, 1, 2, MaxChildPreviews + 1}

\* deep: the children of children are records like their parents, at every
\* depth (a record that refers to itself: a.next, a.next.next, ...)
NoShape ==
    [frame |-> 0, nloc |-> 0, nglob |-> 0, fan1 |-> 0, fan2 |-> 0, dup |-> FALSE, deep |-> FALSE]

\* without a frame there are globals only; a frame has locals (maybe none)
\* besides its globals
Shapes ==
    { [frame |-> 0, nloc |-> 0, nglob |-> g, fan1 |-> f1, fan2 |-> f2, dup |-> d, deep |-> e] :
          g \in 1..MaxVars, f1 \in Fans, f2 \in Fans, d \in BOOLEAN, e \in BOOLEAN }
    \cup
    { [frame |-> 1, nloc |-> l, nglob |-> 1, fan1 |-> f1, fan2 |-> f2, dup |-> d, deep |-> e] :
          l \in 0..MaxVars, f1 \in Fans, f2 \in Fans, d \in BOOLEAN, e \in BOOLEAN }

\* locals_data: the listing of the frame's locals, {} without a frame or
\* without locals
LocalsData(sh) == IF sh.frame # 0 /\ sh.nloc > 0 THEN 1..sh.nloc ELSE {}

\* a faulty variant of GlobalsData: the globals are listed beside the locals
GlobalsListed(sh) == 1..sh.nglob

\* globals_data: the listing of the globals, emptied when a frame is given
GlobalsData(sh) == IF sh.frame # 0 THEN {} ELSE 1..sh.nglob

\* `list(scope_map.items())` for the names 1..n
RECURSIVE ScopeItems(_)
ScopeItems(names) ==
    IF names = {} THEN <<>>
    ELSE LET top == CHOOSE v \in names : \A w \in names : w <= v
         IN Append(ScopeItems(names \ {top}), <<top>>)

\* preview_data for path p: a table with fan columns, or an object without
Fan(sh, p) == IF Len(p) = 1 THEN sh.fan1 ELSE IF Len(p) = 2 \/ sh.deep THEN sh.fan2 ELSE 0

PreviewOf(sh, p) ==
    [name |-> p, kind |-> IF Fan(sh, p) > 0 THEN "dataframe" ELSE "object",
     fan |-> Fan(sh, p), dup |-> sh.dup]

\* preview["columns"]
Columns(preview) == [i \in 1..preview.fan |-> IF preview.dup /\ i = 2 THEN 1 ELSE i]

SmallerOf(a, b) == IF a < b THEN a ELSE b

\* _child_preview_paths(name, preview, remaining)
ChildPreviewPaths(name, preview, remaining) ==
    IF remaining <= 0 \/ preview = Null THEN <<>>
    ELSE IF preview.kind = "dataframe"
    THEN <<>> \o [i \in 1..SmallerOf(preview.fan, remaining) |-> Append(name, Columns(preview)[i])]
    ELSE <<>>

\* a faulty variant of Fresh: every request computes
AlwaysFresh(name, visited, cache) == TRUE

\* whether _cache_preview computes: name is in neither cache nor visited
Fresh(name, visited, cache) == name \notin DOMAIN cache /\ name \notin visited

\* cache.get(name)
CacheGet(cache, name) == IF name \in DOMAIN cache THEN cache[name] ELSE Null

\* _cache_preview(name, namespace, rows, cols, visited, cache): what it
\* returns, what it leaves in visited and cache, and whether it computed
CachePreview(sh, name, visited, cache) ==
    IF Fresh(name, visited, cache)
    THEN [ret |-> PreviewOf(sh, name), visited |-> visited \cup {name},
          cache |-> [q \in DOMAIN cache \cup {name} |->
                        IF q = name THEN PreviewOf(sh, name) ELSE cache[q]],
          computed |-> TRUE]
    ELSE [ret |-> CacheGet(cache, name), visited |-> visited, cache |-> cache,
          computed |-> FALSE]

\* the places of extra whose path is appended: not visited, not queued, and
\* not appended at an earlier place
NewPlaces(queue, extra, visited) ==
    {i \in DOMAIN extra :
        /\ extra[i] \notin visited
        /\ \A j \in DOMAIN queue : queue[j] # extra[i]
        /\ \A j \in 1..(i - 1) : extra[j] # extra[i]}

\* the paths of extra at the places of keep, in their order
Kept(extra, keep) ==
    [k \in 1..Cardinality(keep) |->
        extra[CHOOSE i \in keep : Cardinality({j \in keep : j <= i}) = k]]

\* `for grand in extra: if grand not in visited and grand not in queue:
\* queue.append(grand)`
AppendNew(queue, extra, visited) ==
    CHOOSE q \in {queue \o Kept(extra, keep) : keep \in {NewPlaces(queue, extra, visited)}} : TRUE

NoSnapshot == [locals |-> {}, globals |-> {}, scoped |-> FALSE, sent |-> FALSE]

\* before the call.  computes and hits count, per pass, the previews computed
\* for each path and the requests answered from the cache; asked and ret are
\* the latest request to _cache_preview and its result
NoPass ==
    [pc |-> "idle", sh |-> NoShape, locals |-> {}, globals |-> {},
     todo |-> <<>>, cur |-> <<>>, remaining |-> 0, queue |-> <<>>,
     child_map |-> {}, visited |-> {}, cache |-> <<>>, entries |-> <<>>,
     computes |-> <<>>, hits |-> 0, asked |-> <<>>, ret |-> Null,
     snapshot |-> NoSnapshot]

PassIdle == pass = NoPass

\* the bookkeeping of one request to _cache_preview with result r
Requested(ps, name, r) ==
    [ps EXCEPT !.visited = r.visited, !.cache = r.cache, !.asked = name, !.ret = r.ret,
               !.hits = IF r.computed THEN @ ELSE @ + 1,
               !.computes = [q \in DOMAIN ps.computes \cup (IF r.computed THEN {name} ELSE {}) |->
                                (IF q \in DOMAIN ps.computes THEN ps.computes[q] ELSE 0)
                                + (IF r.computed /\ q = name THEN 1 ELSE 0)]]

\* _myipy_emit_debug_vars(frame) up to the first enrich call: the listings,
\* an empty visited set and an empty cache
PassBegin ==
    /\ pass.pc = "idle"
    /\ \E sh \in Shapes :
        pass' = [NoPass EXCEPT !.pc = "vars", !.sh = sh,
                               !.locals = LocalsData(sh), !.globals = GlobalsData(sh),
                               !.todo = ScopeItems(LocalsData(sh)) \o ScopeItems(GlobalsData(sh))]
    /\ UNCHANGED <<serverVars, routerVars, threadVars, pathVars, callVars, channelVars, mainVars>>

\* enrich, the next variable: its preview, a fresh budget, the queue of its
\* child paths
VarPreviewed(name, r) ==
    pass' = [Requested(pass, name, r) EXCEPT
                !.pc = "children", !.todo = Tail(pass.todo), !.cur = name,
                !.remaining = MaxChildPreviews, !.child_map = {},
                !.queue = ChildPreviewPaths(name, r.ret, MaxChildPreviews)]

EnrichVar ==
    /\ pass.pc = "vars"
    /\ pass.todo # <<>>
    /\ \E r \in {CachePreview(pass.sh, Head(pass.todo), pass.visited, pass.cache)} :
          VarPreviewed(Head(pass.todo), r)
    /\ UNCHANGED <<serverVars, routerVars, threadVars, pathVars, callVars, channelVars, mainVars>>

\* a faulty variant of LoopGoes: the loop runs while paths are queued
LoopIgnoresBudget(queue, remaining) == queue # <<>>

\* `while queue and remaining > 0`
LoopGoes(queue, remaining) == queue # <<>> /\ remaining > 0

\* a faulty variant of ChildPreviewed: a turn that costs no budget
ChildPreviewedFree(child, r) ==
    \E extra \in {ChildPreviewPaths(child, r.ret, pass.remaining)} :
        pass' = [Requested(pass, child, r) EXCEPT
                    !.child_map = @ \cup {child},
                    !.queue = AppendNew(Tail(pass.queue), extra, r.visited)]

\* enrich, one turn of the while loop
ChildPreviewed(child, r) ==
    \E extra \in {ChildPreviewPaths(child, r.ret, pass.remaining - 1)} :
        pass' = [Requested(pass, child, r) EXCEPT
                    !.child_map = @ \cup {child},
                    !.remaining = @ - 1,
                    !.queue = AppendNew(Tail(pass.queue), extra, r.visited)]

EnrichChild ==
    /\ pass.pc = "children"
    /\ LoopGoes(pass.queue, pass.remaining)
    /\ \E r \in {CachePreview(pass.sh, Head(pass.queue), pass.visited, pass.cache)} :
          ChildPreviewed(Head(pass.queue), r)
    /\ UNCHANGED <<serverVars, routerVars, threadVars, pathVars, callVars, channelVars, mainVars>>

\* enrich, after the while loop: the child map is attached to the entry (the
\* entry without one has an empty one here)
EnrichAttach ==
    /\ pass.pc = "children"
    /\ ~LoopGoes(pass.queue, pass.remaining)
    /\ pass' = [pass EXCEPT !.pc = "vars",
                            !.entries = [v \in DOMAIN pass.entries \cup {pass.cur} |->
                                            IF v = pass.cur THEN pass.child_map
                                            ELSE pass.entries[v]]]
    /\ UNCHANGED <<serverVars, routerVars, threadVars, pathVars, callVars, channelVars, mainVars>>

\* _myipy_emit_debug_vars after the enrich calls: the context captures the
\* namespace and the snapshot is emitted
PassEnd ==
    /\ pass.pc = "vars"
    /\ pass.todo = <<>>
    /\ ctx' = Capture(ctx, limits, pass.sh.frame, Namespace({"x", "y"}, 1),
                      IntV(LimitOr(limits.rows, 30)), IntV(LimitOr(limits.cols, 20)))
    /\ pass' = [pass EXCEPT !.pc = "done",
                            !.snapshot = [locals |-> pass.locals, globals |-> pass.globals,
                                          scoped |-> pass.sh.frame # 0, sent |-> TRUE]]
    /\ UNCHANGED <<sport, ssock, sthread, limits, conn, obs>>
    /\ UNCHANGED <<routerVars, threadVars, pathVars, callVars, channelVars, mainVars>>

(***************************************************************************)
(* resolve_path(path, namespace).  A path is a sequence of characters, a   *)
(* name or a string key likewise.  Python values are records: an int, a    *)
(* list (items), a dict (keys), an object with attributes (attrs), and an  *)
(* object whose __getattr__ raises an exception without a message.         *)
(***************************************************************************)
None == [kind |-> "none", id |-> 0, items |-> <<>>, keys |-> <<>>, attrs |-> <<>>]
Leaf(n) == [kind |-> "int", id |-> n, items |-> <<>>, keys |-> <<>>, attrs |-> <<>>]
PyList(items) == [kind |-> "list", id |-> 0, items |-> items, keys |-> <<>>, attrs |-> <<>>]
PyDict(keys) == [kind |-> "dict", id |-> 0, items |-> <<>>, keys |-> keys, attrs |-> <<>>]
PyObject(attrs) == [kind |-> "object", id |-> 0, items |-> <<>>, keys |-> <<>>, attrs |-> attrs]
Quiet == [kind |-> "quiet", id |-> 0, items |-> <<>>, keys |-> <<>>, attrs |-> <<>>]

\* a key of a subscript: an int or a str
IntKey(i) == [t |-> "int", i |-> i, s |-> <<>>]
StrKey(chars) == [t |-> "str", i |-> 0, s |-> chars]

\* the outcome of a lookup: the value, or the text of the exception
Found(v) == [ok |-> TRUE, value |-> v, text |-> ""]
LookupError(text) == [ok |-> FALSE, value |-> None, text |-> text]

\* getattr(current, ident), str(exc) where it raises
GetAttr(current, ident) ==
    IF current.kind = "quiet" THEN LookupError("")
    ELSE IF current.kind = "object" /\ ident \in DOMAIN current.attrs
    THEN Found(current.attrs[ident])
    ELSE LookupError("object has no attribute")

\* current[key], str(exc) where it raises; a list takes negative indices
GetItem(current, key) ==
    IF current.kind = "list"
    THEN IF key.t # "int" THEN LookupError("list indices must be integers or slices, not str")
         ELSE IF key.i >= 0 /\ key.i < Len(current.items) THEN Found(current.items[key.i + 1])
         ELSE IF key.i < 0 /\ Len(current.items) + key.i >= 0
         THEN Found(current.items[Len(current.items) + key.i + 1])
         ELSE LookupError("list index out of range")
    ELSE IF current.kind = "dict"
    THEN IF key.t = "str" /\ key.s \in DOMAIN current.keys THEN Found(current.keys[key.s])
         ELSE LookupError("repr of the key")
    ELSE LookupError("object is not subscriptable")

\* the namespaces resolve_path is called with
Inner == PyList(<<Leaf(10), Leaf(20)>>)
Table == PyDict([k \in {<<"a">>, <<>>, <<"'">>} |->
                    IF k = <<"a">> THEN Leaf(30) ELSE IF k = <<>> THEN Leaf(31) ELSE Leaf(32)])
Thing == PyObject([k \in {<<"a">>, <<"a", "1">>} |-> IF k = <<"a">> THEN Inner ELSE Table])
FullNamespace ==
    [k \in {<<"a">>, <<"a", "a">>} |-> IF k = <<"a">> THEN PyList(<<Thing, Table, Quiet>>) ELSE Thing]
EmptyNamespace == [k \in {} |-> None]
NamespaceOf(tag) == IF tag = "full" THEN FullNamespace ELSE EmptyNamespace

\* globals() of the module ipybridge_ns: its own functions and imports
ModuleGlobals == [k \in {<<"a", "1">>} |-> Leaf(99)]

\* `ns = namespace or globals()`: an empty mapping is falsy
NamespaceOr(namespace) == IF DOMAIN namespace = {} THEN ModuleGlobals ELSE namespace

\* what resolve_path does: return a triple or raise
NoReason == [nil |-> TRUE, text |-> ""]
Reason(text) == [nil |-> FALSE, text |-> text]
Success(value) == [raised |-> FALSE, exc |-> "", ok |-> TRUE, value |-> value, err |-> NoReason]
Failure(text) == [raised |-> FALSE, exc |-> "", ok |-> FALSE, value |-> None, err |-> Reason(text)]
Raises(exc) == [raised |-> TRUE, exc |-> exc, ok |-> FALSE, value |-> None, err |-> NoReason]

\* str.isspace, str.isdigit and _is_ident_char on the characters used here
Spaces == {" "}
Digits == DOMAIN DigitVal
IdentChars == {"a", "_"} \cup Digits

\* path.strip()
RECURSIVE StripLeft(_)
StripLeft(s) == IF s # <<>> /\ Head(s) \in Spaces THEN StripLeft(Tail(s)) ELSE s

RECURSIVE StripRight(_)
StripRight(s) ==
    IF s # <<>> /\ s[Len(s)] \in Spaces THEN StripRight(SubSeq(s, 1, Len(s) - 1)) ELSE s

Strip(s) == StripRight(StripLeft(s))

\* _read_ident(start): the position after the identifier characters
RECURSIVE IdentEnd(_, _)
IdentEnd(s, pos) == IF pos <= Len(s) /\ s[pos] \in IdentChars THEN IdentEnd(s, pos + 1) ELSE pos

\* `while idx < length and s[idx].isdigit(): idx += 1`
RECURSIVE DigitsEnd(_, _)
DigitsEnd(s, pos) == IF pos <= Len(s) /\ s[pos] \in Digits THEN DigitsEnd(s, pos + 1) ELSE pos

\* the loop over a quoted key from position idx: where it stops and the key
RECURSIVE ScanKey(_, _, _, _)
ScanKey(s, idx, quote, buf) ==
    IF idx > Len(s) THEN [idx |-> idx, buf |-> buf]
    ELSE IF s[idx] = "\\" /\ idx + 1 <= Len(s) THEN ScanKey(s, idx + 2, quote, Append(buf, s[idx + 1]))
    ELSE IF s[idx] = quote THEN [idx |-> idx, buf |-> buf]
    ELSE ScanKey(s, idx + 1, quote, Append(buf, s[idx]))

RECURSIVE Walk(_, _, _)

\* after getattr or the subscript: go on from idx, or fail with str(exc)
AfterLookup(s, idx, r) == IF r.ok THEN Walk(s, idx, r.value) ELSE Failure(r.text)

\* "." was read; the identifier runs from start to before pos
WalkAttr(s, start, pos, current) ==
    IF pos = start THEN Failure("invalid attribute")
    ELSE AfterLookup(s, pos, GetAttr(current, SubSeq(s, start, pos - 1)))

\* the key was read and idx is where "]" has to be
WalkClose(s, idx, key, current) ==
    IF idx > Len(s) \/ s[idx] # "]" THEN Failure("missing ]")
    ELSE AfterLookup(s, idx + 1, GetItem(current, key))

\* a quoted key was scanned up to k.idx
WalkQuoted(s, quote, k, current) ==
    IF k.idx > Len(s) \/ s[k.idx] # quote THEN Failure("unterminated string key")
    ELSE WalkClose(s, k.idx + 1, StrKey(k.buf), current)

\* an integer key: start is after an optional "-", but the digits are counted
\* from idx, the position of the "-" itself; int() gets s[start:pos]
WalkIndex(s, start, pos, current) ==
    IF pos = start THEN Failure("invalid index")
    ELSE IF pos < start THEN Raises("ValueError")
    ELSE WalkClose(s, pos, IntKey(DigitsValue(SubSeq(s, start, pos - 1))), current)

\* "[" was read and idx is after it
WalkBracket(s, idx, current) ==
    IF idx > Len(s) THEN Failure("missing ]")
    ELSE IF s[idx] \in {"'", "\""} THEN WalkQuoted(s, s[idx], ScanKey(s, idx + 1, s[idx], <<>>), current)
    ELSE WalkIndex(s, IF s[idx] = "-" THEN idx + 1 ELSE idx, DigitsEnd(s, idx), current)

\* `while idx < length`
Walk(s, idx, current) ==
    IF idx > Len(s) THEN Success(current)
    ELSE IF s[idx] \in Spaces THEN Walk(s, idx + 1, current)
    ELSE IF s[idx] = "." THEN WalkAttr(s, idx + 1, IdentEnd(s, idx + 1), current)
    ELSE IF s[idx] = "[" THEN WalkBracket(s, idx + 1, current)
    ELSE Failure("invalid character")

\* the first identifier of s ends before pos
WalkFrom(s, pos, ns) ==
    IF pos = 1 THEN Failure("invalid start")
    ELSE IF SubSeq(s, 1, pos - 1) \notin DOMAIN ns THEN Failure("Name not found")
    ELSE Walk(s, pos, ns[SubSeq(s, 1, pos - 1)])

ResolveStripped(s, ns) == WalkFrom(s, IdentEnd(s, 1), ns)

\* resolve_path(path, namespace) for a path that is a str
ResolvePath(path, namespace) == ResolveStripped(Strip(path), NamespaceOr(namespace))

\* ---- paths written after the grammar IDENT (('.' IDENT) | ('[' KEY ']'))*
AttrSeg(name) == [t |-> "attr", name |-> name, key |-> IntKey(0)]
ItemSeg(key) == [t |-> "item", name |-> <<>>, key |-> key]

DigitChar(n) == CHOOSE c \in Digits : DigitVal[c] = n

\* a signed integer literal (of one digit)
IntLiteral(i) == IF i < 0 THEN <<"-", DigitChar(0 - i)>> ELSE <<DigitChar(i)>>

\* the characters of a key with quote and backslash escaped
RECURSIVE Escaped(_)
Escaped(chars) ==
    IF chars = <<>> THEN <<>>
    ELSE (IF Head(chars) \in {"'", "\\"} THEN <<"\\", Head(chars)>> ELSE <<Head(chars)>>)
         \o Escaped(Tail(chars))

SegText(seg) ==
    IF seg.t = "attr" THEN <<".">> \o seg.name
    ELSE IF seg.key.t = "int" THEN <<"[">> \o IntLiteral(seg.key.i) \o <<"]">>
    ELSE <<"[", "'">> \o Escaped(seg.key.s) \o <<"'", "]">>

RECURSIVE SegsText(_)
SegsText(segs) == IF segs = <<>> THEN <<>> ELSE SegText(Head(segs)) \o SegsText(Tail(segs))

PathText(name, segs) == name \o SegsText(segs)

\* the segments navigated by hand from value v: getattr for an attribute,
\* the subscript for a key
RECURSIVE Navigate(_, _)
NavigateOn(r, segs) == IF r.ok THEN Navigate(r.value, segs) ELSE r

Navigate(v, segs) ==
    IF segs = <<>> THEN Found(v)
    ELSE NavigateOn(IF Head(segs).t = "attr" THEN GetAttr(v, Head(segs).name)
                    ELSE GetItem(v, Head(segs).key),
                    Tail(segs))

\* the name and the segments by hand from the namespace
NavigateFrom(ns, name, segs) ==
    IF name \in DOMAIN ns THEN Navigate(ns[name], segs) ELSE LookupError("no such name")

\* the inputs
Chars == {"a", "1", ".", "[", "]", "'", "-", " "}
Paths == UNION { [1..n -> Chars] : n \in 0..MaxPathLen }
Names == {<<"a">>, <<"a", "a">>, <<"a", "1">>}
Segs ==
    {AttrSeg(<<"a">>), AttrSeg(<<"a", "1">>)}
    \cup {ItemSeg(IntKey(i)) : i \in {0 - 3, 0 - 2, 0 - 1, 0, 1, 2, 3}}
    \cup {ItemSeg(StrKey(k)) : k \in {<<"a">>, <<>>, <<"'">>, <<"1">>}}
SegLists == UNION { [1..n -> Segs] : n \in 0..MaxSegs }
NamespaceTags == {"full", "empty"}

NoResolve ==
    [pc |-> "idle", given |-> "none", path |-> <<>>, ns |-> "empty",
     name |-> <<>>, segs |-> <<>>, gap |-> 0, out |-> Failure("")]

PathIdle == walk = NoResolve

\* a call with out as its outcome
Resolved(given, path, tag, name, segs, out) ==
    walk' = [pc |-> "done", given |-> given, path |-> path, ns |-> tag,
             name |-> name, segs |-> segs, gap |-> 0, out |-> out]

\* resolve_path on any string
ResolveString ==
    /\ walk.pc = "idle"
    /\ \E path \in Paths, tag \in NamespaceTags :
        Resolved("string", path, tag, <<>>, <<>>, ResolvePath(path, NamespaceOf(tag)))
    /\ UNCHANGED <<serverVars, routerVars, threadVars, passVars, callVars, channelVars, mainVars>>

\* the tokens of a path written after the grammar: the name, and for each
\* segment "." and the identifier, or "[", the key and "]"
SegTokens(seg) ==
    IF seg.t = "attr" THEN <<<<".">>, seg.name>>
    ELSE IF seg.key.t = "int" THEN <<<<"[">>, IntLiteral(seg.key.i), <<"]">>>>
    ELSE <<<<"[">>, <<"'">> \o Escaped(seg.key.s) \o <<"'">>, <<"]">>>>

RECURSIVE SegsTokens(_)
SegsTokens(segs) == IF segs = <<>> THEN <<>> ELSE SegTokens(Head(segs)) \o SegsTokens(Tail(segs))

PathTokens(name, segs) == <<name>> \o SegsTokens(segs)

\* the tokens written one after the other with a space after the gap-th of
\* them (before the first for gap 0)
RECURSIVE Spaced(_, _)
Spaced(tokens, gap) ==
    (IF gap = 0 THEN <<" ">> ELSE <<>>)
    \o (IF tokens = <<>> THEN <<>> ELSE Head(tokens) \o Spaced(Tail(tokens), gap - 1))

\* a call for a path written after the grammar with one space between two
\* of its tokens, or before the first or after the last
ResolvedSpaced(path, tag, name, segs, gap, out) ==
    walk' = [pc |-> "done", given |-> "spaced", path |-> path, ns |-> tag,
             name |-> name, segs |-> segs, gap |-> gap, out |-> out]

ResolveSpaced ==
    /\ walk.pc = "idle"
    /\ \E name \in Names, segs \in SegLists, tag \in NamespaceTags :
        \E gap \in 0..Len(PathTokens(name, segs)) :
            ResolvedSpaced(Spaced(PathTokens(name, segs), gap), tag, name, segs, gap,
                           ResolvePath(Spaced(PathTokens(name, segs), gap), NamespaceOf(tag)))
    /\ UNCHANGED <<serverVars, routerVars, threadVars, passVars, callVars, channelVars, mainVars>>

\* resolve_path on a path written after the grammar
ResolveSegments ==
    /\ walk.pc = "idle"
    /\ \E name \in Names, segs \in SegLists, tag \in NamespaceTags :
        Resolved("segments", PathText(name, segs), tag, name, segs,
                 ResolvePath(PathText(name, segs), NamespaceOf(tag)))
    /\ UNCHANGED <<serverVars, routerVars, threadVars, passVars, callVars, channelVars, mainVars>>

(***************************************************************************)
(* preview_data (ipybridge_ns.py), one call at a time.  An object is       *)
(* described by what preview_data asks of it: which of the isinstance and  *)
(* is_dataclass tests it passes (traits), whether reading it raises and    *)
(* with what text, its rows, columns, elements and fields, and the length  *)
(* of its repr.  A cell of a table is the pair of its row and column, an   *)
(* element of an array is its index.                                       *)
(***************************************************************************)
PreviewKinds == {"dataframe", "ndarray", "dataclass", "ctypes", "ctypes_array"}

\* the limit of the repr of an object that is none of the kinds
ReprLimit == 300

\* a repr that raises has length -1
ReprRaises == 0 - 1

PlainObject ==
    [traits |-> {}, breaks |-> FALSE, exc |-> "", ndim |-> 0, nrows |-> 0, ncols |-> 0,
     length |-> 0, fields |-> <<>>, replen |-> ReprLimit - 1]

\* _safe_repr(value, limit)
SafeRepr(replen, limit) ==
    IF replen < 0 THEN [text |-> "<unrepr>", len |-> 8, dots |-> FALSE]
    ELSE IF replen > limit THEN [text |-> "repr", len |-> limit, dots |-> TRUE]
    ELSE [text |-> "repr", len |-> replen, dots |-> FALSE]

NoRepr == [text |-> "", len |-> 0, dots |-> FALSE]

\* a payload: the keys it holds and their values; raised when the call ends
\* in an exception and returns none
NoPreview ==
    [raised |-> FALSE, keys |-> {}, name |-> <<>>, kind |-> "", error |-> [prefix |-> "", text |-> ""],
     shape |-> <<>>, columns |-> <<>>, rows |-> <<>>, values |-> <<>>, length |-> 0,
     fields |-> <<>>, repr |-> NoRepr]

RaisedPreview == [NoPreview EXCEPT !.raised = TRUE]

\* {"name": name, "error": prefix + text}
ErrorPreview(name, prefix, text) ==
    [NoPreview EXCEPT !.keys = {"name", "error"}, !.name = name,
                      !.error = [prefix |-> prefix, text |-> text]]

\* len(seq[:n])
SliceLen(len, n) == IF n >= 0 THEN SmallerOf(n, len) ELSE IF len + n > 0 THEN len + n ELSE 0

\* len(range(min(length, limit)))
RangeLen(length, limit) == IF SmallerOf(length, limit) < 0 THEN 0 ELSE SmallerOf(length, limit)

\* obj.iloc[:max_rows, :max_cols] and obj[:max_rows, :max_cols], row by row
Window(obj, max_rows, max_cols) ==
    [r \in 1..SliceLen(obj.nrows, max_rows) |->
        [c \in 1..SliceLen(obj.ncols, max_cols) |-> <<r - 1, c - 1>>]]

\* the dataframe branch
DataFramePreview(name, obj, max_rows, max_cols) ==
    IF obj.breaks THEN ErrorPreview(name, "", obj.exc)
    ELSE [NoPreview EXCEPT
            !.keys = {"name", "kind", "shape", "columns", "rows"},
            !.name = name,
            !.kind = "dataframe",
            !.shape = <<SliceLen(obj.nrows, max_rows), SliceLen(obj.ncols, max_cols)>>,
            !.columns = [c \in 1..SliceLen(obj.ncols, max_cols) |-> c - 1],
            !.rows = Window(obj, max_rows, max_cols)]

\* the ndarray branch
NdarrayPreview(name, obj, max_rows, max_cols) ==
    IF obj.breaks THEN ErrorPreview(name, "", obj.exc)
    ELSE IF obj.ndim = 1
    THEN [NoPreview EXCEPT
            !.keys = {"name", "kind", "dtype", "shape", "values1d"},
            !.name = name, !.kind = "ndarray", !.shape = <<obj.nrows>>,
            !.values = [r \in 1..SliceLen(obj.nrows, max_rows) |-> r - 1]]
    ELSE IF obj.ndim = 2
    THEN [NoPreview EXCEPT
            !.keys = {"name", "kind", "dtype", "shape", "rows"},
            !.name = name, !.kind = "ndarray", !.shape = <<obj.nrows, obj.ncols>>,
            !.rows = Window(obj, max_rows, max_cols)]
    ELSE [NoPreview EXCEPT
            !.keys = {"name", "kind", "dtype", "shape", "repr"},
            !.name = name, !.kind = "ndarray", !.shape = <<obj.nrows, obj.ncols, 1>>,
            !.repr = SafeRepr(obj.replen, ReprLimit)]

\* a field of a record is a scalar, an array, or unreadable (getattr raises)
FieldSorts == {"scalar", "array", "unreadable"}

\* the entry _dataclass_preview makes for the k-th field
DataclassEntry(k, sort) ==
    IF sort = "unreadable" THEN [name |-> k, kind |-> "value", key |-> "repr", text |-> "<unreadable>"]
    ELSE IF sort = "array" THEN [name |-> k, kind |-> "ndarray", key |-> "shape", text |-> ""]
    ELSE [name |-> k, kind |-> "value", key |-> "repr", text |-> "repr"]

\* _dataclass_preview(obj, max_cols) inside preview_data's try
DataclassPreview(name, obj) ==
    IF obj.breaks THEN ErrorPreview(name, "dataclass error: ", obj.exc)
    ELSE [NoPreview EXCEPT
            !.keys = {"name", "kind", "class_name", "fields"},
            !.name = name, !.kind = "dataclass",
            !.fields = [k \in DOMAIN obj.fields |-> DataclassEntry(k, obj.fields[k])]]

\* the entry _ctypes_structure_preview makes for the k-th field
StructureEntry(k, sort) ==
    IF sort = "unreadable" THEN [name |-> k, kind |-> "unknown", key |-> "value", text |-> "<unreadable>"]
    ELSE IF sort = "array" THEN [name |-> k, kind |-> "array", key |-> "values", text |-> ""]
    ELSE [name |-> k, kind |-> "scalar", key |-> "value", text |-> "value"]

\* _ctypes_structure_preview(obj, max_cols) inside preview_data's try
StructurePreview(name, obj) ==
    IF obj.breaks THEN ErrorPreview(name, "ctypes inspect error: ", obj.exc)
    ELSE [NoPreview EXCEPT
            !.keys = {"name", "kind", "struct_name", "fields"},
            !.name = name, !.kind = "ctypes",
            !.fields = [k \in DOMAIN obj.fields |-> StructureEntry(k, obj.fields[k])]]

\* an element of the values of an array preview, and the entry "...(+n more)"
Elem(i) == [sentinel |-> FALSE, n |-> i]
More(n) == [sentinel |-> TRUE, n |-> n]

\* a test that counts a full array as too long
Reaches(length, limit) == length >= limit

\* `if length > limit`
Overflows(length, limit) == length > limit

\* the values _ctypes_array_preview lists
ArrayValues(length, limit) ==
    [i \in 1..RangeLen(length, limit) |-> Elem(i - 1)]
    \o (IF Overflows(length, limit) THEN <<More(length - limit)>> ELSE <<>>)

\* _ctypes_array_preview(obj, max_rows) inside preview_data's try
ArrayPreview(name, obj, max_rows) ==
    IF obj.breaks THEN ErrorPreview(name, "ctypes error: ", obj.exc)
    ELSE [NoPreview EXCEPT
            !.keys = {"name", "kind", "ctype", "length", "values"},
            !.name = name, !.kind = "ctypes_array", !.length = obj.length,
            !.values = ArrayValues(obj.length, max_rows)]

\* the last return of preview_data
ObjectPreview(name, obj) ==
    [NoPreview EXCEPT !.keys = {"name", "kind", "repr"}, !.name = name, !.kind = "object",
                      !.repr = SafeRepr(obj.replen, ReprLimit)]

\* a classification with the ndarray test before the dataframe test
ClassifyArrayFirst(traits) ==
    IF "ndarray" \in traits THEN "ndarray"
    ELSE IF "dataframe" \in traits THEN "dataframe"
    ELSE IF "dataclass" \in traits THEN "dataclass"
    ELSE IF "ctypes" \in traits THEN "ctypes"
    ELSE IF "ctypes_array" \in traits THEN "ctypes_array"
    ELSE "object"

\* the kind whose branch preview_data takes for an object of these traits
Classify(traits) ==
    IF "dataframe" \in traits THEN "dataframe"
    ELSE IF "ndarray" \in traits THEN "ndarray"
    ELSE IF "dataclass" \in traits THEN "dataclass"
    ELSE IF "ctypes" \in traits THEN "ctypes"
    ELSE IF "ctypes_array" \in traits THEN "ctypes_array"
    ELSE "object"

\* preview_data once the path has resolved to obj, by the branch taken
PreviewBranch(branch, name, obj, max_rows, max_cols) ==
    IF branch = "dataframe" THEN DataFramePreview(name, obj, max_rows, max_cols)
    ELSE IF branch = "ndarray" THEN NdarrayPreview(name, obj, max_rows, max_cols)
    ELSE IF branch = "dataclass" THEN DataclassPreview(name, obj)
    ELSE IF branch = "ctypes" THEN StructurePreview(name, obj)
    ELSE IF branch = "ctypes_array" THEN ArrayPreview(name, obj, max_rows)
    ELSE ObjectPreview(name, obj)

\* preview_data(name, namespace, max_rows, max_cols), res being what
\* resolve_path returned for name and obj the object it found
PreviewBuilt(name, res, obj, max_rows, max_cols) ==
    IF res.raised THEN RaisedPreview
    ELSE IF ~res.ok
    THEN ErrorPreview(name, "", IF res.err.nil \/ res.err.text = "" THEN "Name not found"
                                ELSE res.err.text)
    ELSE PreviewBranch(Classify(obj.traits), name, obj, max_rows, max_cols)

\* a call of preview_data with the keywords kw: TypeError before the body
\* runs when a keyword is no parameter
CallPreviewBuilt(kw, name, res, obj, max_rows, max_cols) ==
    IF kw \subseteq PreviewDataParams THEN PreviewBuilt(name, res, obj, max_rows, max_cols)
    ELSE RaisedPreview

\* ---- the objects and limits the calls are made with
MaxSize == 3

\* objects of every combination of traits, sound or raising when read
MixedObjects ==
    {[PlainObject EXCEPT !.traits = t, !.breaks = b[1], !.exc = b[2], !.ndim = 2, !.nrows = 2,
                         !.ncols = 2, !.length = 2, !.fields = <<"scalar">>] :
        t \in SUBSET PreviewKinds, b \in {<<FALSE, "">>, <<TRUE, "">>, <<TRUE, "boom">>}}

Tables ==
    {[PlainObject EXCEPT !.traits = {t[1]}, !.ndim = t[2], !.nrows = r, !.ncols = c] :
        t \in {<<"dataframe", 2>>, <<"ndarray", 1>>, <<"ndarray", 2>>, <<"ndarray", 3>>},
        r \in 0..MaxSize, c \in 0..MaxSize}

Arrays == {[PlainObject EXCEPT !.traits = {"ctypes_array"}, !.length = n] : n \in 0..MaxSize}

Records ==
    {[PlainObject EXCEPT !.traits = {t}, !.fields = f] :
        t \in {"dataclass", "ctypes"},
        f \in UNION {[1..n -> FieldSorts] : n \in 0..MaxSize}}

Plains == {[PlainObject EXCEPT !.replen = n] : n \in {ReprRaises, ReprLimit - 1, ReprLimit, ReprLimit + 1}}

\* repr of a list of n one-digit ints, n > 0: "[0, 1, 2]" has 3 * n characters
ListReprLen(n) == 3 * n

\* plain lists of one-digit ints: none of the kinds
Lists == {[PlainObject EXCEPT !.length = n, !.replen = ListReprLen(n)] : n \in 1..(MaxSize + 2)}

PreviewObjects == MixedObjects \cup Tables \cup Arrays \cup Records \cup Plains \cup Lists

\* max_rows and max_cols of a call
Limits == (0 - 1)..(MaxSize + 1)

\* the values of FullNamespace and ModuleGlobals are ints, lists, dicts and
\* instances of plain classes: none of the kinds
ObjectOf(value) == PlainObject

\* the name a namespace binds to the object of a call
BoundName == <<"a">>

NoView ==
    [pc |-> "idle", given |-> "none", name |-> <<>>, ns |-> "empty", obj |-> PlainObject,
     max_rows |-> 0, max_cols |-> 0, row_offset |-> 0, col_offset |-> 0,
     res |-> Failure(""), out |-> NoPreview]

ViewIdle == view = NoView

Viewed(given, name, tag, obj, max_rows, max_cols, row_offset, col_offset, res, out) ==
    view' = [pc |-> "done", given |-> given, name |-> name, ns |-> tag, obj |-> obj,
             max_rows |-> max_rows, max_cols |-> max_cols, row_offset |-> row_offset,
             col_offset |-> col_offset, res |-> res, out |-> out]

\* preview_data for a path in one of the two namespaces
ViewedPath(name, tag, res) ==
    Viewed("path", name, tag, ObjectOf(res.value), MaxSize, MaxSize, 0, 0, res,
           PreviewBuilt(name, res, ObjectOf(res.value), MaxSize, MaxSize))

PreviewPath ==
    /\ view.pc = "idle"
    /\ \E name \in Names, segs \in SegLists, tag \in NamespaceTags :
        ViewedPath(PathText(name, segs), tag,
                   ResolvePath(PathText(name, segs), NamespaceOr(NamespaceOf(tag))))
    /\ UNCHANGED <<serverVars, routerVars, threadVars, passVars, pathVars, listing, channelVars, mainVars>>

\* preview_data for a name that the namespace binds to obj
PreviewValue ==
    /\ view.pc = "idle"
    /\ \E obj \in PreviewObjects, max_rows \in Limits, max_cols \in Limits :
        Viewed("value", BoundName, "full", obj, max_rows, max_cols, 0, 0, Success(None),
               PreviewBuilt(BoundName, Success(None), obj, max_rows, max_cols))
    /\ UNCHANGED <<serverVars, routerVars, threadVars, passVars, pathVars, listing, channelVars, mainVars>>

\* the limits __mi_preview leaves in _PREVIEW_LIMITS
MiLimits(max_rows, max_cols) ==
    [rows |-> CoerceInt(max_rows, LimitOr(limits.rows, 30)),
     cols |-> CoerceInt(max_cols, LimitOr(limits.cols, 20))]

\* __mi_preview(name, max_rows, max_cols, row_offset, col_offset) for a name
\* that the namespace binds to a table
MiPreviewed(obj, lim, row_off, col_off) ==
    /\ limits' = lim
    /\ Viewed("mi_preview", BoundName, "full", obj, lim.rows, lim.cols, row_off, col_off,
              Success(None),
              CallPreviewBuilt(ComputeKeywords, BoundName, Success(None), obj, lim.rows, lim.cols))

MiPreviewTable ==
    /\ view.pc = "idle"
    /\ \E obj \in Tables, max_rows \in Limits, max_cols \in Limits, ro \in Limits, co \in Limits :
        MiPreviewed(obj, MiLimits(IntV(max_rows), IntV(max_cols)),
                    OffsetBase(CoerceInt(IntV(ro), 0)), OffsetBase(CoerceInt(IntV(co), 0)))
    /\ UNCHANGED <<sport, ssock, sthread, ctx, conn, obs>>
    /\ UNCHANGED <<routerVars, threadVars, passVars, pathVars, listing, channelVars, mainVars>>

PreviewNext ==
    \/ PreviewPath
    \/ PreviewValue
    \/ MiPreviewTable

(***************************************************************************)
(* list_variables and _match (ipybridge_ns.py), and the filters they read. *)
(* A string is the sequence of its characters; a key or a pattern that is  *)
(* no string is NotStr.  A value is described by what _should_skip_value   *)
(* asks of it and by the name of its type.                                 *)
(***************************************************************************)
Str(chars) == [str |-> TRUE, s |-> chars]
NotStr == [str |-> FALSE, s |-> <<>>]

\* _EXCLUDED_NAMES
ExcludedNames ==
    {Str(<<"I", "n">>), Str(<<"O", "u", "t">>), Str(<<"e", "x", "i", "t">>),
     Str(<<"q", "u", "i", "t">>),
     Str(<<"g", "e", "t", "_", "i", "p", "y", "t", "h", "o", "n">>)}

\* a list of patterns, or None
NoPatterns == [nil |-> TRUE, items |-> <<>>]
Patterns(items) == [nil |-> FALSE, items |-> items]

\* name.startswith(prefix)
StartsWith(s, prefix) == Len(prefix) <= Len(s) /\ SubSeq(s, 1, Len(prefix)) = prefix

\* a pattern that matches only the identical string
ExactMatches(s, pattern) == s = pattern

\* one turn of the loop of _match for a pattern that is a string
PatternMatches(s, pattern) ==
    IF pattern # <<>> /\ pattern[Len(pattern)] = "*"
    THEN StartsWith(s, SubSeq(pattern, 1, Len(pattern) - 1))
    ELSE s = pattern

\* _match(name, patterns)
Match(s, patterns) ==
    /\ ~patterns.nil
    /\ \E i \in DOMAIN patterns.items :
        /\ patterns.items[i].str
        /\ PatternMatches(s, patterns.items[i].s)

\* max_repr of _FILTERS as the module is loaded
FiltersMaxRepr == 120

\* replen is the length of the value's repr: 5 is 1, 'abc' is 5, the list is
\* one longer than the default limit
IntValue == [sort |-> "data", type |-> <<"i", "n", "t">>, replen |-> 1]
StrValue == [sort |-> "data", type |-> <<"s", "t", "r">>, replen |-> 5]
ListValue == [sort |-> "data", type |-> <<"l", "i", "s", "t">>, replen |-> FiltersMaxRepr + 1]
FunctionValue ==
    [sort |-> "function", type |-> <<"f", "u", "n", "c", "t", "i", "o", "n">>, replen |-> 5]
TypeValue == [sort |-> "type", type |-> <<"t", "y", "p", "e">>, replen |-> 5]
ModuleValue == [sort |-> "module", type |-> <<"m", "o", "d", "u", "l", "e">>, replen |-> 5]
CallableValue == [sort |-> "callable", type |-> <<"C">>, replen |-> 5]

\* a filter that skips modules, functions and types only
SkipsTypesOnly(value) == value.sort \in {"module", "function", "type"}

\* _should_skip_value(value)
ShouldSkipValue(value) ==
    value.sort \in {"module", "function", "type"} \/ value.sort = "callable"

\* _FILTERS as the module is loaded
NoFilters == [names |-> NoPatterns, types |-> NoPatterns, max_repr |-> FiltersMaxRepr]

\* set_var_filters(names, types_, max_repr): a list given replaces the one
\* stored, and so does a max_repr that is positive (0 stands for None)
SetVarFilters(f, names, types, max_repr) ==
    [names |-> IF names.nil THEN f.names ELSE names,
     types |-> IF types.nil THEN f.types ELSE types,
     max_repr |-> IF max_repr > 0 THEN max_repr ELSE f.max_repr]

\* `list(x) if x else None`
ListOrNone(patterns) == IF patterns.nil \/ patterns.items = <<>> THEN NoPatterns ELSE patterns

\* get_var_filters()
GetVarFilters(f) ==
    [names |-> ListOrNone(f.names), types |-> ListOrNone(f.types), max_repr |-> f.max_repr]

\* whether the loop of list_variables lets the entry name: value through
Listed(name, value, hidden_names, hidden_types) ==
    /\ name.str
    /\ ~(StartsWith(name.s, <<"_">>) \/ name \in ExcludedNames)
    /\ ~Match(name.s, hidden_names)
    /\ ~ShouldSkipValue(value)
    /\ ~Match(value.type, hidden_types)

\* the loop of list_variables over the namespace ns
ListedOf(ns, hidden_names, hidden_types, max_repr_val) ==
    [name \in {n \in DOMAIN ns : Listed(n, ns[n], hidden_names, hidden_types)} |->
        [type |-> ns[name].type, repr |-> SafeRepr(ns[name].replen, max_repr_val)]]

\* a limit that falls back to the default, not to the filters
MaxReprOrDefault(max_repr, f) == IF max_repr # 0 THEN max_repr ELSE FiltersMaxRepr

\* `max_repr or _FILTERS["max_repr"]`
MaxReprOr(max_repr, f) == IF max_repr # 0 THEN max_repr ELSE f.max_repr

\* list_variables(namespace, max_repr, hide_names, hide_types) with f as _FILTERS
ListVariables(ns, max_repr, hide_names, hide_types, f) ==
    ListedOf(ns, IF hide_names.nil THEN f.names ELSE hide_names,
                 IF hide_types.nil THEN f.types ELSE hide_types,
                 MaxReprOr(max_repr, f))

\* ---- the namespaces and the filters of the calls
ListedValues ==
    {IntValue, StrValue, ListValue, FunctionValue, TypeValue, ModuleValue, CallableValue}

\* max_repr of a call: None, a limit 'abc' just fits, the default
MaxReprs == {0, StrValue.replen, FiltersMaxRepr}

CoreNames == {Str(<<"a">>), Str(<<"a", "a">>), Str(<<"b">>), Str(<<"_", "a">>)}

ListedNames ==
    CoreNames \cup ExcludedNames \cup {Str(<<>>), Str(<<"_">>), Str(<<"b", "a">>), NotStr}

Namespaces ==
    UNION {[{n} -> ListedValues] : n \in ListedNames}
    \cup UNION {[{n, m} -> ListedValues] : n \in CoreNames, m \in CoreNames}
    \cup {<<>>}

NamePatterns ==
    {NoPatterns, Patterns(<<>>), Patterns(<<Str(<<"a">>)>>), Patterns(<<Str(<<"a", "*">>)>>),
     Patterns(<<Str(<<"*">>)>>), Patterns(<<Str(<<"a", "*", "a">>)>>),
     Patterns(<<NotStr, Str(<<"b">>)>>)}

TypePatterns ==
    {NoPatterns, Patterns(<<>>), Patterns(<<Str(<<"i", "n", "t">>)>>),
     Patterns(<<Str(<<"s", "*">>)>>)}

\* the strings and the pattern lists _match is called with
MatchStrings == {n.s : n \in {m \in ListedNames : m.str}}

MatchItems ==
    {NotStr, Str(<<>>), Str(<<"a">>), Str(<<"a", "*">>), Str(<<"*">>), Str(<<"a", "*", "a">>),
     Str(<<"*", "a">>), Str(<<"b", "a">>)}

MatchLists ==
    {NoPatterns} \cup {Patterns(items) : items \in UNION {[1..n -> MatchItems] : n \in 0..2}}

NoListing ==
    [pc |-> "idle", given |-> "none", filters |-> NoFilters, ns |-> <<>>,
     max_repr |-> 0, hide_names |-> NoPatterns, hide_types |-> NoPatterns, out |-> <<>>,
     s |-> <<>>, patterns |-> NoPatterns, matched |-> FALSE]

ListingIdle == listing = NoListing

\* sync_filters.py: the editor's filters are stored once, before any listing
SyncFilters ==
    /\ listing.pc = "idle"
    /\ listing.filters = NoFilters
    /\ \E names \in NamePatterns \ {NoPatterns}, types \in TypePatterns \ {NoPatterns},
          max_repr \in MaxReprs :
        listing' = [listing EXCEPT
                      !.filters = SetVarFilters(listing.filters, names, types, max_repr)]
    /\ UNCHANGED <<serverVars, routerVars, threadVars, passVars, pathVars, view, channelVars, mainVars>>

\* a listing of the namespace ns that leaves f in _FILTERS
Listing(given, ns, max_repr, hide_names, hide_types, f, out) ==
    listing' = [listing EXCEPT
                  !.pc = "done", !.given = given, !.filters = f, !.ns = ns,
                  !.max_repr = max_repr, !.hide_names = hide_names,
                  !.hide_types = hide_types, !.out = out]

\* __mi_list_vars(max_repr, hide_names, hide_types) on the namespace ns:
\* f is _FILTERS after __mi_set_filters, g what get_var_filters returns
MiListed(ns, max_repr, hide_names, hide_types, f, g) ==
    Listing("list", ns, max_repr, hide_names, hide_types, f,
            ListVariables(ns, IF g.max_repr # 0 THEN g.max_repr
                              ELSE IF max_repr # 0 THEN max_repr ELSE FiltersMaxRepr,
                          g.names, g.types, f))

MiListVarsWith(ns, max_repr, hide_names, hide_types, f) ==
    MiListed(ns, max_repr, hide_names, hide_types, f, GetVarFilters(f))

MiListVars ==
    /\ listing.pc = "idle"
    /\ \E ns \in Namespaces, hide_names \in NamePatterns, hide_types \in TypePatterns,
          max_repr \in MaxReprs :
        MiListVarsWith(ns, max_repr, hide_names, hide_types,
                       SetVarFilters(listing.filters, hide_names, hide_types, max_repr))
    /\ UNCHANGED <<serverVars, routerVars, threadVars, passVars, pathVars, view, channelVars, mainVars>>

\* list_variables(namespace) with no max_repr, hide_names or hide_types
ListDirect ==
    /\ listing.pc = "idle"
    /\ \E ns \in Namespaces :
        Listing("direct", ns, 0, NoPatterns, NoPatterns, listing.filters,
                ListVariables(ns, 0, NoPatterns, NoPatterns, listing.filters))
    /\ UNCHANGED <<serverVars, routerVars, threadVars, passVars, pathVars, view, channelVars, mainVars>>

\* one call of _match
MatchCall ==
    /\ listing.pc = "idle"
    /\ \E s \in MatchStrings, patterns \in MatchLists :
        listing' = [listing EXCEPT !.pc = "done", !.given = "match", !.s = s,
                                   !.patterns = patterns, !.matched = Match(s, patterns)]
    /\ UNCHANGED <<serverVars, routerVars, threadVars, passVars, pathVars, view, channelVars, mainVars>>

ListingNext ==
    \/ SyncFilters
    \/ MiListVars
    \/ ListDirect
    \/ MatchCall

CallsIdle == ViewIdle /\ ListingIdle

(***************************************************************************)
(* KernelChannel.run_and_collect (myipy_kernel_client.py), call after      *)
(* call on one client.  Every caller passes code only, so user_expression  *)
(* is None.  The kernel answers an execute request with messages on iopub  *)
(* (the idle status last) and one reply on the shell channel; the client   *)
(* keeps the replies that arrived and were not read in a queue.  A call is *)
(* given the iopub messages its loop reads (those of its own request and   *)
(* of others), the reply the kernel makes, and whether that reply arrives  *)
(* within the wait or later.                                               *)
(***************************************************************************)
\* an iopub message: own when parent_header.msg_id is the id of the request
Msg(own, type, text) == [own |-> own, type |-> type, text |-> text]

OwnStdout == {Msg(TRUE, "stdout", t) : t \in {<<"[", "1">>, <<"]">>, <<" ">>}}

Msgs ==
    OwnStdout \cup
    {Msg(TRUE, "error", <<"t", "1">>), Msg(TRUE, "idle", <<>>),
     Msg(FALSE, "error", <<"t", "0">>), Msg(FALSE, "idle", <<>>)}

\* the kernel sends the idle status of a request after its other messages
IdleLast(script) ==
    \A i \in DOMAIN script :
        (script[i].own /\ script[i].type = "idle") =>
            \A j \in (i + 1)..Len(script) : ~script[j].own

\* what the loop of a call reads: up to two messages, or two chunks of
\* stdout and the idle status
Scripts ==
    {s \in {<<>>} \cup {<<m>> : m \in Msgs} \cup {<<m, n>> : m \in Msgs, n \in Msgs} : IdleLast(s)}
    \cup {<<m, n, Msg(TRUE, "idle", <<>>)>> : m \in OwnStdout, n \in OwnStdout}

\* what the iopub loop has collected
NoCollected == [stdout |-> <<>>, success |-> TRUE, error_text |-> <<>>, idle |-> FALSE]

\* one turn of the loop for message m
Collect(c, m) ==
    IF ~m.own THEN c
    ELSE IF m.type = "stdout" THEN [c EXCEPT !.stdout = c.stdout \o m.text]
    ELSE IF m.type = "error" THEN [c EXCEPT !.success = FALSE, !.error_text = m.text]
    ELSE IF m.type \in {"idle", "debug_reply"} THEN [c EXCEPT !.idle = TRUE]
    ELSE c

\* the loop: it ends at idle, and when get_iopub_msg raises on an empty queue
RECURSIVE CollectAll(_, _)
CollectAll(c, script) ==
    IF script = <<>> \/ c.idle THEN c ELSE CollectAll(Collect(c, Head(script)), Tail(script))

\* json.loads on texts of the characters [ 1 ] and space: where the value
\* that begins at i ends, 0 if there is none
RECURSIVE SkipSpaces(_, _)
SkipSpaces(s, i) == IF i <= Len(s) /\ s[i] = " " THEN SkipSpaces(s, i + 1) ELSE i

RECURSIVE SkipOnes(_, _)
SkipOnes(s, i) == IF i <= Len(s) /\ s[i] = "1" THEN SkipOnes(s, i + 1) ELSE i

RECURSIVE JsonValueEnd(_, _)
JsonClose(s, e) == IF e # 0 /\ SkipSpaces(s, e) <= Len(s) /\ s[SkipSpaces(s, e)] = "]"
                   THEN SkipSpaces(s, e) + 1 ELSE 0

JsonValueAt(s, i) ==
    IF i > Len(s) THEN 0
    ELSE IF s[i] = "1" THEN SkipOnes(s, i)
    ELSE IF s[i] = "["
    THEN (IF SkipSpaces(s, i + 1) <= Len(s) /\ s[SkipSpaces(s, i + 1)] = "]"
          THEN SkipSpaces(s, i + 1) + 1
          ELSE JsonClose(s, JsonValueEnd(s, i + 1)))
    ELSE 0

JsonValueEnd(s, i) == JsonValueAt(s, SkipSpaces(s, i))

\* json.loads(text): the data is the text without its spaces
JsonLoads(text) ==
    IF JsonValueEnd(text, 1) # 0 /\ SkipSpaces(text, JsonValueEnd(text, 1)) > Len(text)
    THEN [ok |-> TRUE, data |-> SelectSeq(text, LAMBDA ch : ch # " ")]
    ELSE [ok |-> FALSE, data |-> <<>>]

\* what run_and_collect returns
Collected(data) == [ok |-> TRUE, data |-> data, nil |-> FALSE, err |-> "", text |-> <<>>]
NotCollected(err, text) == [ok |-> FALSE, data |-> <<>>, nil |-> TRUE, err |-> err, text |-> text]

\* a shell reply: own when it answers the request of the call in progress;
\* named when it carries ename and evalue
Reply(own, status, named) == [own |-> own, status |-> status, named |-> named]

Replies == {Reply(TRUE, "ok", FALSE), Reply(TRUE, "error", TRUE), Reply(TRUE, "error", FALSE)}

\* the replies of earlier requests, as a new call finds them
RECURSIVE Earlier(_)
Earlier(q) == IF q = <<>> THEN <<>> ELSE <<[Head(q) EXCEPT !.own = FALSE]>> \o Earlier(Tail(q))

\* a wait that always ends in failure
TimeoutFails(stdout) == NotCollected("shell timeout", <<>>)

\* the except branch of the wait for the shell reply
TimeoutResult(stdout) ==
    IF stdout # <<>> /\ JsonLoads(Strip(stdout)).ok
    THEN Collected(JsonLoads(Strip(stdout)).data)
    ELSE NotCollected("shell timeout", <<>>)

\* after a reply was read: its status, then the payload on stdout
ReplyResult(reply, stdout) ==
    IF reply.status # "ok"
    THEN NotCollected(IF reply.named THEN "ename: evalue" ELSE "error", <<>>)
    ELSE IF Strip(stdout) = <<>> THEN NotCollected("empty payload", <<>>)
    ELSE IF JsonLoads(Strip(stdout)).ok THEN Collected(JsonLoads(Strip(stdout)).data)
    ELSE NotCollected("parse error", <<>>)

\* the replies an earlier request may leave unread, waiting or under way
MaxPending == 2

NoRead == [got |-> FALSE, reply |-> Reply(FALSE, "ok", FALSE)]

NoCall ==
    [pc |-> "none", script |-> <<>>, reply |-> Reply(TRUE, "ok", FALSE), arrival |-> "intime",
     waited |-> FALSE, timedout |-> FALSE, read |-> NoRead, out |-> NotCollected("", <<>>)]

ChannelIdle == chan = [shellq |-> <<>>, late |-> <<>>, last |-> NoCall]

\* run_and_collect returns out; queue holds the replies that have arrived,
\* the first of them read if the call waited and found one
Returned(script, reply, arrival, queue, late, c, waited, out) ==
    chan' = [shellq |-> IF waited /\ queue # <<>> THEN Tail(queue) ELSE queue,
             late |-> late,
             last |-> [pc |-> "done", script |-> script, reply |-> reply, arrival |-> arrival,
                       waited |-> waited,
                       timedout |-> waited /\ queue = <<>>,
                       read |-> IF waited /\ queue # <<>>
                                THEN [got |-> TRUE, reply |-> Head(queue)] ELSE NoRead,
                       out |-> out]]

\* run_and_collect(code): c is what the iopub loop collected
RunWith(script, reply, arrival, queue, late, c) ==
    IF ~c.success
    THEN Returned(script, reply, arrival, queue, late, c, FALSE,
                  NotCollected("traceback", c.error_text))
    ELSE Returned(script, reply, arrival, queue, late, c, TRUE,
                  IF queue = <<>> THEN TimeoutResult(c.stdout)
                  ELSE ReplyResult(Head(queue), c.stdout))

RunAndCollect ==
    /\ Len(chan.shellq) + Len(chan.late) < MaxPending
    /\ \E script \in Scripts, reply \in Replies, arrival \in {"intime", "late"} :
        RunWith(script, reply, arrival,
                Earlier(chan.shellq) \o (IF arrival = "intime" THEN <<reply>> ELSE <<>>),
                Earlier(chan.late) \o (IF arrival = "late" THEN <<reply>> ELSE <<>>),
                CollectAll(NoCollected, script))
    /\ UNCHANGED <<serverVars, routerVars, threadVars, passVars, pathVars, callVars, mainVars>>

\* a reply that missed its wait reaches the client
ReplyArrives ==
    /\ chan.late # <<>>
    /\ chan' = [chan EXCEPT !.shellq = chan.shellq \o <<Head(chan.late)>>,
                            !.late = Tail(chan.late)]
    /\ UNCHANGED <<serverVars, routerVars, threadVars, passVars, pathVars, callVars, mainVars>>

ChannelNext ==
    \/ RunAndCollect
    \/ ReplyArrives

(***************************************************************************)
(* main (myipy_kernel_client.py): parse_args, the import of the kernel     *)
(* client library, connect, process_stream.  The command line, whether the *)
(* library can be imported and whether connect succeeds are inputs.        *)
(***************************************************************************)
\* a command line: with or without --conn-file (required) and --debug
Argvs == [conn_file : BOOLEAN, debug : BOOLEAN]

\* the line main writes when the import fails; it has no tag
MissingClient == Response(StrV(<<"0">>), FALSE, "<none>", Absent, MsgV("jupyter_client missing"))

\* a variant of the import failure that reports on stderr as well
ImportFailedLoudly(p) ==
    [p EXCEPT !.pc = "returned", !.imported = "failed", !.out = <<MissingClient>>,
              !.errlines = 1, !.code = 1]

\* the except branch of the import: one line on stdout, return 1
ImportFailed(p) ==
    [p EXCEPT !.pc = "returned", !.imported = "failed", !.out = <<MissingClient>>, !.code = 1]

\* exit codes: sys.exit(None) is 0, argparse exits with 2, an exception that
\* leaves main ends the interpreter with 1
ExitNone == 0
ExitUsage == 2
ExitRaised == 1

NoProc ==
    [pc |-> "start", argv |-> [conn_file |-> TRUE, debug |-> FALSE], imported |-> "no",
     channel |-> FALSE, out |-> <<>>, errlines |-> 0, code |-> ExitNone]

MainIdle == proc = NoProc

\* main up to process_stream
Started(argv, importable, connects) ==
    IF ~argv.conn_file
    THEN [NoProc EXCEPT !.pc = "exited", !.argv = argv, !.errlines = 1, !.code = ExitUsage]
    ELSE IF ~importable THEN ImportFailed([NoProc EXCEPT !.argv = argv])
    ELSE IF ~connects
    THEN [NoProc EXCEPT !.pc = "raised", !.argv = argv, !.imported = "yes", !.code = ExitRaised]
    ELSE [NoProc EXCEPT !.pc = "serving", !.argv = argv, !.imported = "yes", !.channel = TRUE,
                        !.errlines = IF argv.debug THEN 1 ELSE 0]

MainStart ==
    /\ proc.pc = "start"
    /\ \E argv \in Argvs, importable \in BOOLEAN, connects \in BOOLEAN :
        proc' = Started(argv, importable, connects)
    /\ UNCHANGED <<serverVars, routerVars, threadVars, passVars, pathVars, callVars, channelVars>>

\* process_stream, line by line
MainServe ==
    /\ proc.pc = "serving"
    /\ RouterNext

\* process_stream returns at the end of the input, or an exception leaves it
MainReturn ==
    /\ proc.pc = "serving"
    /\ rpc \in {"eof", "crashed"}
    /\ proc' = IF rpc = "eof" THEN [proc EXCEPT !.pc = "returned", !.code = ExitNone]
               ELSE [proc EXCEPT !.pc = "raised", !.code = ExitRaised]
    /\ UNCHANGED <<serverVars, routerVars, threadVars, passVars, pathVars, callVars, channelVars>>

MainNext ==
    \/ MainStart
    \/ MainServe
    \/ MainReturn

RestIdle == ThreadsIdle /\ PassIdle /\ PathIdle /\ CallsIdle /\ ChannelIdle /\ MainIdle

(***************************************************************************)
(* Specifications.                                                         *)
(***************************************************************************)
\* the router alone, its collaborators' answers being inputs
InitRouter == RouterInit /\ ServerInit /\ RestIdle

SpecRouter == InitRouter /\ [][RouterNext]_vars

\* the router before its first line
RouterIdle == RouterInit /\ chanPort = 0

\* the life of the debug preview server: ensure_running and the accept thread
ServerNext ==
    \/ EnsureRunning
    \/ Accept
    \/ AcceptError
    \/ ServeConn

InitServer == RouterIdle /\ ServerInit /\ RestIdle

SpecServer == InitServer /\ [][ServerNext]_vars

\* the listening server and the foreground thread that captures contexts
ContextNext ==
    \/ Accept
    \/ ServeConn
    \/ Snapshot
    \/ MiPreview

InitContext == RouterIdle /\ ListeningInit /\ RestIdle

SpecContext == InitContext /\ [][ContextNext]_vars

\* Both routes of a preview request to the preview engine: the router handling
\* the first line of its input as a preview request, and the listening server
\* handling connections.
FirstPreviewExec == nread = 0 /\ HandlePreviewExec

FirstPreviewDebug == nread = 0 /\ HandlePreviewDebug

RoutesNext ==
    \/ FirstPreviewExec
    \/ FirstPreviewDebug
    \/ Accept
    \/ ServeConn

InitRoutes == RouterInit /\ ListeningInit /\ RestIdle

SpecRoutes == InitRoutes /\ [][RoutesNext]_vars

\* the foreground thread and the server thread in capture and compute
ThreadsNext ==
    \/ CaptureBegin
    \/ CaptureLine
    \/ MiPreviewOutsideCapture
    \/ ComputeBegin
    \/ ComputeLine

InitThreads == RouterIdle /\ ListeningInit /\ RestIdle

SpecThreads == InitThreads /\ [][ThreadsNext]_vars

\* one snapshot pass
PassNext ==
    \/ PassBegin
    \/ EnrichVar
    \/ EnrichChild
    \/ EnrichAttach
    \/ PassEnd

InitPass == RouterIdle /\ ListeningInit /\ RestIdle

SpecPass == InitPass /\ [][PassNext]_vars

\* the pass is straight-line code on one thread: while a step is possible,
\* one is taken
SpecPassFair == SpecPass /\ WF_vars(PassNext)

\* calls of resolve_path
PathNext ==
    \/ ResolveString
    \/ ResolveSegments
    \/ ResolveSpaced

InitPath == RouterIdle /\ ListeningInit /\ RestIdle

SpecPath == InitPath /\ [][PathNext]_vars

InitPreview == RouterIdle /\ ListeningInit /\ RestIdle

SpecPreview == InitPreview /\ [][PreviewNext]_vars

InitListing == RouterIdle /\ ListeningInit /\ RestIdle

SpecListing == InitListing /\ [][ListingNext]_vars

InitChannel == RouterIdle /\ ListeningInit /\ RestIdle

SpecChannel == InitChannel /\ [][ChannelNext]_vars

InitMain == RouterInit /\ ServerInit /\ RestIdle

SpecMain == InitMain /\ [][MainNext]_vars


(***************************************************************************)
(* Properties of the router (SpecRouter).  `last` is the latest line and   *)
(* what the router did with it.                                            *)
(***************************************************************************)
\* the latest line was a request object
LastIsRequest == last.kind = "request"

\* the args the latest request was handled with
LastArgs == ArgsOf(last.req)

\* the latest request was a preview request with usable args, in debug mode or not
LastIsPreview(debug) ==
    /\ LastIsRequest
    /\ last.req.op = "preview"
    /\ IsDict(LastArgs)
    /\ DebugMode(LastArgs) = debug

\* how many calls of helper fn the latest request caused
CountCalls(fn) == Cardinality({k \in DOMAIN last.trace : last.trace[k].fn = fn})

\* the calls the latest request made on the execution channel
ExecCallCount == Cardinality({k \in DOMAIN last.trace : last.trace[k].fn # "socket"})

\* C1: process_stream writes exactly one response line for every request it
\* decodes and none for a blank or undecodable line, and the i-th response
\* carries the id of the i-th request.
C1_OneResponsePerRequest ==
    /\ outIds = reqIds
    /\ last.kind \in {"blank", "undecodable"} => ~last.wrote

\* C2: the router keeps running until its input ends: no request and no
\* failure of a collaborator ends process_stream or leaves a decoded line
\* without a response.
C2_RouterSurvives ==
    /\ rpc # "crashed"
    /\ last.kind \in {"request", "nonobject"} => last.wrote

\* C3 as stated: in debug mode the socket is asked first; if it fails, exactly
\* one __mi_debug_preview call follows and the response answers with its
\* result; if it succeeds, no call at all is made on the execution channel.
C3_NoExecOnSocketSuccess ==
    (LastIsPreview(TRUE) /\ last.wrote) =>
        /\ last.att.made
        /\ ~last.att.ok => (CountCalls("__mi_debug_preview") = 1 /\ last.resp.ok = last.fb.ok)
        /\ last.att.ok => ExecCallCount = 0

\* C3 amended: in debug mode the client is asked first; if it fails, exactly
\* one __mi_debug_preview call follows, as the last call, and the response's ok
\* (and data, where the call returned some) is that call's; if it succeeds, no
\* __mi_debug_preview call is made and the response is ok.  Either way the only
\* other call on the execution channel is at most one __mi_debug_server_info
\* lookup, made first, before anything is sent to the socket.
C3_SocketFirst ==
    (LastIsPreview(TRUE) /\ last.wrote) =>
        /\ last.att.made
        /\ ~last.att.ok =>
              /\ CountCalls("__mi_debug_preview") = 1
              /\ last.trace[Len(last.trace)].fn = "__mi_debug_preview"
              /\ last.resp.ok = last.fb.ok
              /\ (last.fb.ok /\ last.fb.data # Null) => last.resp.data = last.fb.data
        /\ last.att.ok =>
              /\ CountCalls("__mi_debug_preview") = 0
              /\ last.resp.ok
        /\ ExecCallCount = CountCalls("__mi_debug_preview") + CountCalls("__mi_debug_server_info")
        /\ CountCalls("__mi_debug_server_info") <= 1
        /\ CountCalls("__mi_debug_server_info") = 1 => last.trace[1] = InfoCall
        /\ CountCalls("socket") <= 1

\* a debug preview answered by the fallback call after a port lookup and a
\* socket request that failed
C3_Witness ==
    /\ LastIsPreview(TRUE)
    /\ last.wrote
    /\ ~last.att.ok
    /\ CountCalls("__mi_debug_server_info") = 1
    /\ CountCalls("socket") = 1
    /\ CountCalls("__mi_debug_preview") = 1
    /\ last.resp.ok

\* C4: outside debug mode a preview makes exactly one __mi_preview call that
\* carries the requested name, limits and offsets, and nothing is sent to
\* the debug socket.
C4_PreviewCarriesName ==
    (LastIsPreview(FALSE) /\ last.wrote) =>
        /\ Len(last.trace) = 1
        /\ last.trace[1].fn = "__mi_preview"
        /\ last.trace[1].name = PlainName(NameOf(LastArgs))
        /\ last.trace[1].a = PreviewInts(LastArgs)
        /\ ~last.att.made

\* a non-empty text
IsMessage(v) == v.t = "str" /\ Truthy(v)

\* C5: a vars or preview response carries data exactly when ok is true and
\* error, a non-empty text, exactly when ok is false; none has ok true with
\* an error, in debug mode or not.
C5_DataXorError ==
    (LastIsRequest /\ last.req.op \in {"vars", "preview"} /\ last.wrote) =>
        /\ last.resp.ok => (last.resp.data # Absent /\ last.resp.error = Absent)
        /\ ~last.resp.ok => (last.resp.data = Absent /\ IsMessage(last.resp.error))

\* C6: a ping is answered {id, ok: true, tag: "pong"}, with no data and no
\* error, without a call to the execution channel or to the debug socket.
C6_PingPong ==
    (LastIsRequest /\ last.req.op = "ping") =>
        /\ last.wrote
        /\ last.resp = [id |-> ReqId(last.req), ok |-> TRUE, tag |-> "pong",
                        data |-> Absent, error |-> Absent]
        /\ outIds[Len(outIds)] = ReqId(last.req)
        /\ last.trace = <<>>
        /\ ~last.att.made

\* a ping with args that are no object, answered as the second line
C6_Witness ==
    /\ LastIsRequest
    /\ last.req.op = "ping"
    /\ last.req.args = StrV(<<"z">>)
    /\ last.wrote
    /\ nread = 2


(***************************************************************************)
(* Properties of the debug preview server (SpecServer, SpecContext).       *)
(* obs.bind is how the latest ensure_running call went ("-" before the     *)
(* first call, "cached" when it returned the stored port), obs.ret what it *)
(* returned, obs.first the first port ever returned.                       *)
(***************************************************************************)
\* C7: ensure_running is idempotent: once it has returned a port p, every
\* later call returns the same p without binding another socket or starting
\* another thread; it returns none only when binding failed, and then no port
\* and no thread are recorded.
C7_EnsureRunningIdempotent ==
    /\ obs.binds <= 1
    /\ obs.threads <= 1
    /\ obs.ret # 0 => (obs.ret = obs.first /\ obs.ret = sport)
    /\ obs.first # 0 => sport = obs.first
    /\ obs.bind = "cached" => obs.ret # 0
    /\ (obs.bind # "-" /\ obs.ret = 0) =>
          /\ obs.bind \in {"fail", "invalid"}
          /\ sport = 0
          /\ ssock = "none"
          /\ sthread = "none"

\* a later call that returned the stored port, one socket bound, one thread started
C7_Witness ==
    /\ obs.bind = "cached"
    /\ obs.ret = sport
    /\ obs.binds = 1
    /\ obs.threads = 1

\* C8: no fault met while serving a connection ends the accept loop, and every
\* accepted connection is closed before the next accept: the thread leaves the
\* body of its loop only for accept, with the connection closed, and it ends
\* only where accept itself fails.
C8_FaultsStayInConnection ==
    /\ [](sthread = "accept" => conn.state # "open")
    /\ [][(sthread = "serving" /\ sthread' # "serving") =>
              (sthread' = "accept" /\ conn'.state = "closed")]_vars
    /\ [][(sthread # "ended" /\ sthread' = "ended") => sthread = "accept"]_vars

\* a reply written on a connection accepted after another connection's fault
C8_Witness ==
    /\ obs.faulted
    /\ conn.wrote
    /\ conn.state = "closed"
    /\ sthread = "accept"

\* the peer of the connection sent a request line
SentLine == conn.sent.k \in {"undecodable", "json"}

\* the line the peer sent is a JSON object
SentObject == conn.sent.k = "json" /\ IsDict(conn.sent.v)

\* C9: every connection on which the peer sent a request line (and took the
\* reply) gets one JSON reply, {ok: true, data} or {ok: false, error}; a line
\* that cannot be decoded or is not a JSON object is answered
\* {ok: false, error: "decode error: ..."} rather than with silence.
C9_EveryLineAnswered ==
    (conn.state = "closed" /\ SentLine /\ conn.fault # "send") =>
        /\ conn.wrote
        /\ conn.reply.ok => (conn.reply.data # Absent /\ conn.reply.error = Absent)
        /\ ~conn.reply.ok => (conn.reply.data = Absent /\ conn.reply.error # Absent)
        /\ ~SentObject => (~conn.reply.ok /\ conn.reply.error = MsgV("decode error: x"))

\* C10: a debug-socket request for a name that the captured context does not
\* bind is answered ok: true with data {name, error: "Name not found"}.
C10_NameNotFound ==
    ( /\ obs.snapshots > 0
      /\ conn.wrote
      /\ SentObject
      /\ conn.sent.v.e = Absent
      /\ conn.sent.v.name.t = "str"
      /\ IsDict(conn.used.namespace)
      /\ conn.sent.v.name.m \notin conn.used.namespace.names ) =>
        /\ conn.reply.ok
        /\ conn.reply.data = Payload(conn.sent.v.name, "<none>", MsgV("Name not found"))


(***************************************************************************)
(* Properties of the offsets on both routes (SpecRoutes).                  *)
(***************************************************************************)
\* the latest request was a preview request that got as far as a call
LastPreviewCalled ==
    /\ LastIsRequest
    /\ last.req.op = "preview"
    /\ IsDict(LastArgs)
    /\ last.trace # <<>>

\* the latest connection's request reached compute
ConnComputed ==
    /\ conn.sent.k = "json"
    /\ IsDict(conn.sent.v)
    /\ conn.used # NoUse

\* the offset the claim as stated expects for a requested value
StatedOffset(v) == IF v.t = "int" /\ v.i >= 0 THEN v.i ELSE 0

\* the offset expected for a requested value: what int() makes of it, 0 where
\* it is missing, null, not convertible or negative
ConvertedOffset(v) == IF PyInt(v).ok /\ PyInt(v).i >= 0 THEN PyInt(v).i ELSE 0

\* C11 as stated: the offsets in the calls the router builds and the offsets
\* compute passes on are 0 when the requested value is absent, not an integer
\* or negative, and the requested value otherwise.
C11_OffsetsAsStated ==
    /\ LastPreviewCalled =>
          \A k \in DOMAIN last.trace :
              last.trace[k].fn # "__mi_debug_server_info" =>
                  /\ last.trace[k].a[3] = StatedOffset(LastArgs.f.row_offset)
                  /\ last.trace[k].a[4] = StatedOffset(LastArgs.f.col_offset)
    /\ ConnComputed =>
          /\ conn.used.row_offset = StatedOffset(conn.sent.v.row_offset)
          /\ conn.used.col_offset = StatedOffset(conn.sent.v.col_offset)

\* C11 amended: the offsets in the calls the router builds (to the socket, to
\* __mi_debug_preview and to __mi_preview) and the offsets compute passes on
\* are 0 when the requested value is absent, null, not convertible by int()
\* or negative, and the converted integer otherwise; they are never negative.
C11_OffsetsClamped ==
    /\ LastPreviewCalled =>
          \A k \in DOMAIN last.trace :
              last.trace[k].fn # "__mi_debug_server_info" =>
                  /\ last.trace[k].a[3] = ConvertedOffset(LastArgs.f.row_offset)
                  /\ last.trace[k].a[4] = ConvertedOffset(LastArgs.f.col_offset)
                  /\ last.trace[k].a[3] >= 0
                  /\ last.trace[k].a[4] >= 0
    /\ ConnComputed =>
          /\ conn.used.row_offset = ConvertedOffset(conn.sent.v.row_offset)
          /\ conn.used.col_offset = ConvertedOffset(conn.sent.v.col_offset)
          /\ conn.used.row_offset >= 0
          /\ conn.used.col_offset >= 0

\* negative offsets were requested on both routes and went on as 0
C11_Witness ==
    /\ LastPreviewCalled
    /\ LastArgs.f.row_offset = IntV(0 - 1)
    /\ last.trace[1].a[3] = 0
    /\ ConnComputed
    /\ conn.sent.v.row_offset = IntV(0 - 1)
    /\ conn.used.row_offset = 0


(***************************************************************************)
(* Properties of the preview context (SpecContext).                        *)
(***************************************************************************)
\* this step is the server thread's handling of the accepted connection, and
\* it reached compute
ComputeStep ==
    /\ sthread = "serving"
    /\ conn' # conn
    /\ conn'.used # NoUse

\* C12: last-write-wins. Once a capture has completed, a compute serves from
\* the namespace handed to the most recent capture (captures are numbered in
\* the order they happen), never from the namespace of an earlier one.
C12_LastWriteWins ==
    [][(ComputeStep /\ obs.snapshots > 0)
          => conn'.used.namespace.gen = obs.snapshots]_vars

\* C13: compute never writes the context: namespace, frame, scoped flag and
\* row/col limits are the same after a request as before it, whatever the
\* request and whatever the context, the never-captured one included.
C13_ComputeLeavesContext ==
    [][ComputeStep => ctx' = ctx]_vars


(***************************************************************************)
(* Properties of capture and compute interleaved (SpecThreads).            *)
(***************************************************************************)
\* a compute has returned and no capture is under way
ComputedAtRest == computing.done /\ capturing.pc = 0

\* whether the limit a request brings leaves the limit to the context
FromContext(v) == CoerceInt(v, 0) <= 0

\* C14: a compute that overlaps a capture serves from one whole context: the
\* namespace it serves from and the row and column limits it takes from the
\* context are those of the context as one capture (or construction) left it,
\* never the namespace of one and a limit of another.
C14_OneWholeContext ==
    ComputedAtRest =>
        \E w \in capturing.whole :
            /\ computing.ns = w[1]
            /\ FromContext(computing.rows) => computing.er = w[2]
            /\ FromContext(computing.cols) => computing.ec = w[3]


(***************************************************************************)
(* Properties of the snapshot pass (SpecPass).                             *)
(***************************************************************************)
\* the paths below variable v for which a preview was computed
ComputedBelow(v) == { q \in DOMAIN pass.computes : Len(q) > 1 /\ q[1] = v[1] }

\* the child previews attached so far, over all variables of the pass
AllAttached == pass.child_map \cup UNION { pass.entries[v] : v \in DOMAIN pass.entries }

\* C15: within one pass a preview is computed at most once per path.
\* _cache_preview computes only for a path that is in neither visited nor
\* cache, after which the path is in both; a later request for the path
\* returns the cached payload, and no cached payload ever changes.
C15_ComputedOnce ==
    /\ [](/\ \A q \in DOMAIN pass.computes : pass.computes[q] <= 1
          /\ DOMAIN pass.computes = pass.visited
          /\ DOMAIN pass.cache = pass.visited)
    /\ [][pass.pc # "idle" =>
             /\ \A q \in DOMAIN pass.computes' :
                    (q \notin DOMAIN pass.computes \/ pass.computes'[q] > pass.computes[q])
                        => /\ q \notin pass.visited
                           /\ q \notin DOMAIN pass.cache
                           /\ q \in pass.visited'
                           /\ q \in DOMAIN pass.cache'
             /\ \A q \in DOMAIN pass.cache :
                    q \in DOMAIN pass.cache' /\ pass.cache'[q] = pass.cache[q]
             /\ pass.hits' > pass.hits => pass.ret' = pass.cache[pass.asked']]_vars

\* a path was requested again and answered from the cache
C15_Witness ==
    /\ pass.hits > 0
    /\ pass.asked \in DOMAIN pass.computes
    /\ pass.computes[pass.asked] = 1
    /\ pass.ret = pass.cache[pass.asked]

C17_GlobalsOnlyUnscoped ==
    pass.snapshot.sent =>
        /\ pass.sh.frame # 0 => pass.snapshot.globals = {} /\ pass.snapshot.scoped
        /\ pass.sh.frame = 0 =>
              /\ pass.snapshot.locals = {}
              /\ pass.snapshot.globals = 1..pass.sh.nglob
              /\ ~pass.snapshot.scoped
        /\ ctx.scoped = pass.snapshot.scoped

\* a snapshot for a frame with locals, whose globals are not listed
C17_Witness ==
    /\ pass.snapshot.sent
    /\ pass.sh.frame # 0
    /\ pass.sh.nglob > 0
    /\ pass.snapshot.locals # {}
    /\ pass.snapshot.globals = {}
    /\ ctx.scoped


(***************************************************************************)
(* Properties of resolve_path (SpecPath).                                  *)
(***************************************************************************)
\* the identifier a stripped path begins with
RECURSIVE LeadingIdent(_)
LeadingIdent(s) ==
    IF s = <<>> \/ Head(s) \notin IdentChars THEN <<>>
    ELSE <<Head(s)>> \o LeadingIdent(Tail(s))

\* C18: for a path written after the grammar whose name is a key of the
\* namespace and whose every segment exists (attribute, integer index,
\* quoted string key, in any mix), resolve_path returns (true, value, nil)
\* with the value that navigating the same segments by hand gives.
C18_ResolvesExistingPath ==
    (/\ walk.given = "segments"
     /\ NavigateFrom(NamespaceOf(walk.ns), walk.name, walk.segs).ok)
        => walk.out = Success(NavigateFrom(NamespaceOf(walk.ns), walk.name, walk.segs).value)

\* C19: for every namespace, the empty mapping included, a path whose first
\* identifier is not a key of the namespace passed in fails with
\* (false, nil, "Name not found").
C19_NameNotFound ==
    (/\ walk.pc = "done"
     /\ LeadingIdent(Strip(walk.path)) # <<>>
     /\ LeadingIdent(Strip(walk.path)) \notin DOMAIN NamespaceOf(walk.ns))
        => walk.out = Failure("Name not found")

\* C20: resolve_path is total: it never raises, and what it returns is
\* (true, value, nil) or (false, nil, reason) with a reason that is not empty.
C20_Total ==
    walk.pc = "done" =>
        /\ ~walk.out.raised
        /\ \/ walk.out.ok /\ walk.out.err = NoReason
           \/ /\ ~walk.out.ok
              /\ walk.out.value = None
              /\ ~walk.out.err.nil
              /\ walk.out.err.text # ""


\* the namespace resolve_path was called with
WalkNamespace == NamespaceOf(walk.ns)

\* C21: a bracket key may be a signed integer literal. For a sequence a of
\* length n and 1 <= k <= n, "a[-k]" resolves to what a[-k] is, the k-th
\* element from the end, just as "a[k-1]" resolves to the k-th element.
C21_SignedIndex ==
    (/\ walk.given = "segments"
     /\ walk.name \in DOMAIN WalkNamespace
     /\ WalkNamespace[walk.name].kind = "list"
     /\ Len(walk.segs) = 1
     /\ walk.segs[1].t = "item"
     /\ walk.segs[1].key.t = "int")
        => LET items == WalkNamespace[walk.name].items
               i == walk.segs[1].key.i
           IN /\ (i >= 0 /\ i < Len(items)) => walk.out = Success(items[i + 1])
              /\ (i < 0 /\ 0 - i <= Len(items)) => walk.out = Success(items[Len(items) + i + 1])

\* ---- the grammar IDENT (('.' IDENT) | ('[' KEY ']'))*, recognised on the
\* characters of a path
IdentStart == {"a", "_"}

\* the position after the characters of class cls from position i on
RECURSIVE RunEnd(_, _, _)
RunEnd(s, i, cls) == IF i <= Len(s) /\ s[i] \in cls THEN RunEnd(s, i + 1, cls) ELSE i

\* the position of the quote that closes a quoted literal whose text begins
\* at i (a backslash escapes the next character); past the end if none does
RECURSIVE QuoteEnd(_, _, _)
QuoteEnd(s, i, q) ==
    IF i > Len(s) THEN i
    ELSE IF s[i] = "\\" THEN QuoteEnd(s, i + 2, q)
    ELSE IF s[i] = q THEN i
    ELSE QuoteEnd(s, i + 1, q)

\* where IDENT beginning at i ends, 0 if there is none
IdentAt(s, i) == IF i <= Len(s) /\ s[i] \in IdentStart THEN RunEnd(s, i, IdentChars) ELSE 0

\* where KEY beginning at i ends, 0 if there is none
KeyAt(s, i) ==
    IF i > Len(s) THEN 0
    ELSE IF s[i] \in {"'", "\""}
    THEN (IF QuoteEnd(s, i + 1, s[i]) <= Len(s) THEN QuoteEnd(s, i + 1, s[i]) + 1 ELSE 0)
    ELSE IF s[i] \in {"-", "+"}
    THEN (IF RunEnd(s, i + 1, Digits) > i + 1 THEN RunEnd(s, i + 1, Digits) ELSE 0)
    ELSE (IF RunEnd(s, i, Digits) > i THEN RunEnd(s, i, Digits) ELSE 0)

RECURSIVE SegmentsFrom(_, _)
\* the key ended before j, where "]" has to be
ClosedAt(s, j) == j # 0 /\ j <= Len(s) /\ s[j] = "]" /\ SegmentsFrom(s, j + 1)

SegmentsFrom(s, i) ==
    IF i = 0 THEN FALSE
    ELSE IF i > Len(s) THEN TRUE
    ELSE IF s[i] = "." THEN SegmentsFrom(s, IdentAt(s, i + 1))
    ELSE IF s[i] = "[" THEN ClosedAt(s, KeyAt(s, i + 1))
    ELSE FALSE

FollowsGrammar(s) == SegmentsFrom(s, IdentAt(s, 1))

SyntaxReasons ==
    {"invalid start", "invalid attribute", "missing ]", "unterminated string key",
     "invalid index", "invalid character"}

\* C22: a path (without whitespace) that does not follow the grammar fails
\* with found = false and a reason that names the syntax error, no value;
\* and "a[1", which ends after its key, fails with "missing ]".
C22_MalformedFails ==
    /\ (/\ walk.pc = "done"
        /\ \A k \in DOMAIN walk.path : walk.path[k] \notin Spaces
        /\ ~FollowsGrammar(walk.path))
          => /\ ~walk.out.raised
             /\ ~walk.out.ok
             /\ walk.out.value = None
             /\ walk.out.err.text \in SyntaxReasons
    /\ (walk.pc = "done" /\ walk.ns = "full" /\ walk.path = <<"a", "[", "1">>)
          => walk.out = Failure("missing ]")

\* C23: whitespace between tokens is ignored: a path written after the
\* grammar with a space between two of its tokens (before or after ".", "[",
\* the key or "]") resolves to what the path without the space resolves to.
C23_WhitespaceIgnored ==
    walk.given = "spaced"
        => walk.out = ResolvePath(PathText(walk.name, walk.segs), WalkNamespace)


\* preview_data's path did not resolve: resolve_path returned found = false
\* or returned nothing at all
Unresolved == view.pc = "done" /\ (view.res.raised \/ ~view.res.ok)

\* the payload is exactly {name, error} for the requested name
NameAndErrorOnly ==
    /\ ~view.out.raised
    /\ view.out.keys = {"name", "error"}
    /\ view.out.name = view.name

\* C24: every payload carries "name" equal to the requested name; when the
\* path does not resolve the payload is exactly {name, error} with the
\* resolver's reason as the error; and when reading an object of one of the
\* kinds fails, the payload is {name, error}, not an exception.
C24_NameAndError ==
    /\ (view.pc = "done" /\ ~view.out.raised)
          => "name" \in view.out.keys /\ view.out.name = view.name
    /\ Unresolved
          => NameAndErrorOnly /\ view.out.error = [prefix |-> "", text |-> view.res.err.text]
    /\ (view.pc = "done" /\ view.res.ok /\ view.obj.breaks /\ view.obj.traits # {})
          => NameAndErrorOnly


\* the kinds in the order the contract names them
KindOrder == <<"dataframe", "ndarray", "dataclass", "ctypes", "ctypes_array">>

\* the earliest kind of the order among the traits
Earliest(traits) ==
    KindOrder[CHOOSE i \in DOMAIN KindOrder :
                /\ KindOrder[i] \in traits
                /\ \A j \in 1..(i - 1) : KindOrder[j] \notin traits]

\* preview_data found a sound object for the name
Classified == view.pc = "done" /\ ~view.out.raised /\ view.res.ok /\ ~view.obj.breaks

\* C25: the payload's kind is the first kind the value matches in the order
\* dataframe, ndarray, dataclass, ctypes structure, ctypes array; a value
\* that matches several gets the earliest; a value that matches none gets
\* kind "object" with its repr cut at the limit, and no error.
C25_FirstKindWins ==
    Classified =>
        /\ view.obj.traits # {} => view.out.kind = Earliest(view.obj.traits)
        /\ view.obj.traits = {} =>
              /\ view.out.kind = "object"
              /\ view.out.keys = {"name", "kind", "repr"}
              /\ view.out.repr.len <= ReprLimit
              /\ view.out.repr.dots <=> view.obj.replen > ReprLimit

C25_Witness ==
    /\ Classified
    /\ view.obj.traits = {"ndarray", "dataclass", "ctypes_array"}
    /\ view.out.kind = "ndarray"


\* how many of n rows (or columns) the window [offset, offset + limit) holds
WindowLen(n, offset, limit) ==
    IF n - offset <= 0 THEN 0 ELSE IF n - offset < limit THEN n - offset ELSE limit

\* the cells of the rows [row_offset, row_offset + max_rows) and the columns
\* [col_offset, col_offset + max_cols) of the table previewed
CellsOfWindow ==
    [r \in 1..WindowLen(view.obj.nrows, view.row_offset, view.max_rows) |->
        [c \in 1..WindowLen(view.obj.ncols, view.col_offset, view.max_cols) |->
            <<view.row_offset + r - 1, view.col_offset + c - 1>>]]

\* a preview was asked of a sound table, with limits that are not negative
TableViewed ==
    /\ view.pc = "done"
    /\ view.given \in {"value", "mi_preview"}
    /\ view.obj.traits = {"dataframe"}
    /\ ~view.obj.breaks
    /\ view.max_rows >= 0
    /\ view.max_cols >= 0

\* C26: the preview of a table holds the rows [row_offset, row_offset +
\* max_rows) and the columns [col_offset, col_offset + max_cols), clipped to
\* the table (so that the windows [0, 10) and [10, 20) of the rows, one
\* after the other, are the window [0, 20)).
C26_WindowAtOffset ==
    TableViewed =>
        /\ ~view.out.raised
        /\ view.out.kind = "dataframe"
        /\ view.out.rows = CellsOfWindow


\* preview_data previewed a sound ctypes array
ArrayViewed ==
    /\ view.pc = "done"
    /\ view.obj.traits = {"ctypes_array"}
    /\ ~view.obj.breaks

\* the entries of the values that are "...(+n more)"
Sentinels == {i \in DOMAIN view.out.values : view.out.values[i].sentinel}

\* how many elements the values begin with: min(L, max_rows), none if that
\* is negative
Shown == IF SmallerOf(view.obj.length, view.max_rows) > 0
         THEN SmallerOf(view.obj.length, view.max_rows) ELSE 0

\* C27: the preview of a ctypes array of length L reports the length L; its
\* values are the first min(L, max_rows) elements in order, followed by
\* exactly one entry "...(+n more)" with n = L - max_rows if L > max_rows,
\* and by nothing otherwise.
C27_ArraySentinel ==
    ArrayViewed =>
        /\ view.out.kind = "ctypes_array"
        /\ view.out.length = view.obj.length
        /\ \A i \in 1..Shown : view.out.values[i] = [sentinel |-> FALSE, n |-> i - 1]
        /\ IF view.obj.length > view.max_rows
           THEN /\ Len(view.out.values) = Shown + 1
                /\ Sentinels = {Shown + 1}
                /\ view.out.values[Shown + 1].n = view.obj.length - view.max_rows
           ELSE /\ Len(view.out.values) = Shown
                /\ Sentinels = {}

C27_Witness ==
    /\ ArrayViewed
    /\ view.obj.length = 3
    /\ view.max_rows = 2
    /\ Len(view.out.values) = 3
    /\ view.out.values[3] = [sentinel |-> TRUE, n |-> 1]


\* preview_data previewed a sound record: a dataclass or a ctypes structure
RecordViewed ==
    /\ view.pc = "done"
    /\ view.obj.traits \in {{"dataclass"}, {"ctypes"}}
    /\ ~view.obj.breaks

\* C28: in the preview of a dataclass or a ctypes structure a field that
\* cannot be read is reported with kind "unknown" and value "<unreadable>",
\* and the preview still lists every field, in declaration order.
C28_UnreadableField ==
    RecordViewed =>
        /\ ~view.out.raised
        /\ DOMAIN view.out.fields = DOMAIN view.obj.fields
        /\ \A k \in DOMAIN view.obj.fields :
              /\ view.out.fields[k].name = k
              /\ view.obj.fields[k] = "unreadable" =>
                    /\ view.out.fields[k].kind = "unknown"
                    /\ view.out.fields[k].key = "value"
                    /\ view.out.fields[k].text = "<unreadable>"


\* the names the environment provides
PseudoNames ==
    {<<"I", "n">>, <<"O", "u", "t">>, <<"e", "x", "i", "t">>, <<"q", "u", "i", "t">>,
     <<"g", "e", "t", "_", "i", "p", "y", "t", "h", "o", "n">>}

\* pattern p matches the string s: s begins with what stands before the "*"
\* that ends p, or p has no "*" at its end and is s
Hides(p, s) ==
    IF Len(p) > 0 /\ p[Len(p)] = "*"
    THEN Len(s) >= Len(p) - 1 /\ \A k \in 1..(Len(p) - 1) : s[k] = p[k]
    ELSE p = s

\* at least one pattern of the list matches s
Hidden(list, s) == \E i \in DOMAIN list.items : list.items[i].str /\ Hides(list.items[i].s, s)

\* what may never be listed: a key that is no string, a reserved or a
\* pseudo-name, a callable, a type or a module
Excluded(name, value) ==
    \/ ~name.str
    \/ (Len(name.s) > 0 /\ name.s[1] = "_")
    \/ name.s \in PseudoNames
    \/ value.sort # "data"

\* C29: the result of list_variables never contains a name that starts with
\* "_", a pseudo-name, or a name bound to a callable, a type or a module;
\* every other string name of the namespace that no hidden-name pattern
\* matches, and whose type name no hidden-type pattern matches, is present
\* with the name of its type.
C29_ListedNames ==
    listing.given = "list" =>
        /\ DOMAIN listing.out \subseteq DOMAIN listing.ns
        /\ \A n \in DOMAIN listing.out : ~Excluded(n, listing.ns[n])
        /\ \A n \in DOMAIN listing.ns :
              (/\ ~Excluded(n, listing.ns[n])
               /\ ~Hidden(listing.filters.names, n.s)
               /\ ~Hidden(listing.filters.types, listing.ns[n].type))
                 => n \in DOMAIN listing.out /\ listing.out[n].type = listing.ns[n].type

C29_Witness ==
    /\ listing.given = "list"
    /\ DOMAIN listing.ns = {Str(<<"a">>), Str(<<"_", "a">>)}
    /\ listing.ns[Str(<<"a">>)] = IntValue
    /\ listing.ns[Str(<<"_", "a">>)] = IntValue
    /\ DOMAIN listing.out = {Str(<<"a">>)}
    /\ listing.out[Str(<<"a">>)].type = <<"i", "n", "t">>

\* C30: a pattern that ends in "*" matches exactly the strings that start
\* with the text before the "*", any other pattern matches only the
\* identical string, and _match says a string is hidden iff at least one
\* pattern of the list matches it.
C30_PatternMatch ==
    listing.given = "match" => (listing.matched <=> Hidden(listing.patterns, listing.s))

C30_Witness ==
    /\ listing.given = "match"
    /\ listing.s = <<"a", "a">>
    /\ listing.patterns = Patterns(<<Str(<<"a", "*", "a">>), Str(<<"a", "*">>)>>)
    /\ listing.matched


\* the repr of a value of repr length n under the limit: the prefix of
\* limit characters and the marker "..." if n is beyond the limit, else the
\* repr unchanged
CutAt(n, limit) ==
    IF n > limit THEN [text |-> "repr", len |-> limit, dots |-> TRUE]
    ELSE [text |-> "repr", len |-> n, dots |-> FALSE]

\* C31: list_variables without hide_names, hide_types or max_repr uses the
\* filters last set by set_var_filters: a name a hidden-name pattern matches
\* and a value whose type name a hidden-type pattern matches are omitted,
\* the other visible names are kept, and a repr is cut to max_repr
\* characters plus "..." only when it is longer than max_repr.
C31_DirectUsesFilters ==
    listing.given = "direct" =>
        /\ DOMAIN listing.out =
              {n \in DOMAIN listing.ns :
                  /\ ~Excluded(n, listing.ns[n])
                  /\ ~Hidden(listing.filters.names, n.s)
                  /\ ~Hidden(listing.filters.types, listing.ns[n].type)}
        /\ \A n \in DOMAIN listing.out :
              listing.out[n].repr = CutAt(listing.ns[n].replen, listing.filters.max_repr)

C31_Witness ==
    /\ listing.given = "direct"
    /\ listing.filters = [names |-> Patterns(<<Str(<<"a">>)>>),
                          types |-> Patterns(<<Str(<<"i", "n", "t">>)>>),
                          max_repr |-> 5]
    /\ DOMAIN listing.ns = {Str(<<"a">>), Str(<<"b">>)}
    /\ listing.ns[Str(<<"b">>)] = StrValue
    /\ DOMAIN listing.out = {Str(<<"b">>)}
    /\ ~listing.out[Str(<<"b">>)].repr.dots


\* a step that serves a list-variables request: _handle_vars always sends
\* two lists, empty ones when the request names none
VarsRequestServed ==
    /\ listing.pc = "idle"
    /\ listing'.given = "list"
    /\ ~listing'.hide_names.nil
    /\ ~listing'.hide_types.nil

\* a step that serves a preview request
PreviewRequestServed == view.pc = "idle" /\ view'.pc = "done"

\* C32: the process-wide filters change only through a configuration call:
\* serving a list-variables or a preview request leaves the hidden-name
\* patterns, the hidden-type names and max_repr as they were.
C32_RequestsKeepFilters ==
    [][(VarsRequestServed \/ PreviewRequestServed) => listing'.filters = listing.filters]_vars

\* the stdout text the messages of the call's own request carry
RECURSIVE OwnText(_)
OwnText(script) ==
    IF script = <<>> THEN <<>>
    ELSE (IF Head(script).own /\ Head(script).type = "stdout" THEN Head(script).text ELSE <<>>)
         \o OwnText(Tail(script))

OwnOf(script, type) == {i \in DOMAIN script : script[i].own /\ script[i].type = type}

CleanRun(call) ==
    /\ OwnOf(call.script, "error") = {}
    /\ OwnOf(call.script, "idle") # {}
    /\ JsonLoads(Strip(OwnText(call.script))).ok
    /\ call.reply.status = "ok"

\* C33: a call whose own iopub messages carry stdout that parses as JSON and
\* reach idle without an error, and whose shell reply has status ok, returns
\* (true, the parsed data, nil); a call whose own request got an error
\* message on iopub returns (false, nil, that error's traceback), whatever
\* stdout was collected.
C33_CollectsOwnRun ==
    chan.last.pc = "done" =>
        /\ CleanRun(chan.last) =>
               chan.last.out = Collected(JsonLoads(Strip(OwnText(chan.last.script))).data)
        /\ \A i \in OwnOf(chan.last.script, "error") :
               chan.last.out = NotCollected("traceback", chan.last.script[i].text)

\* C34: when the wait for the shell reply times out, the call returns the
\* parsed data if the collected stdout is not empty and parses as JSON, and
\* (false, nil, "shell timeout: ...") otherwise.
C34_TimeoutKeepsData ==
    (chan.last.pc = "done" /\ chan.last.timedout) =>
        chan.last.out =
            IF OwnText(chan.last.script) # <<>> /\ JsonLoads(Strip(OwnText(chan.last.script))).ok
            THEN Collected(JsonLoads(Strip(OwnText(chan.last.script))).data)
            ELSE NotCollected("shell timeout", <<>>)

C34_Witness ==
    /\ chan.last.pc = "done" /\ chan.last.timedout
    /\ chan.last.out.ok
    /\ chan.last.out.data = <<"[", "1", "]">>

\* C37: the shell reply a call consumes is the reply to its own execute
\* request, never the reply an earlier request left behind.
C37_ReadsOwnReply ==
    (chan.last.pc = "done" /\ chan.last.read.got) => chan.last.read.reply.own

\* the elements of a list of n one-digit ints that a repr shows: the digit of
\* element k is character 3 * k - 1 of "[0, 1, 2, ...]"
ElementsShown(repr, n) == Cardinality({k \in 1..n : 3 * k - 1 <= repr.len})

ListViewed(n, max_rows) ==
    /\ view.pc = "done" /\ view.given = "value"
    /\ view.obj \in Lists /\ view.obj.length = n
    /\ view.max_rows = max_rows

\* C35: the preview of a name bound to the plain list [0,1,2,3,4], asked
\* with max_rows 3, is a payload with that name that contains at most 3 of
\* the list's elements.
C35_ListWithinMaxRows ==
    ListViewed(5, 3) =>
        /\ view.out.name = view.name
        /\ ElementsShown(view.out.repr, view.obj.length) <= 3

\* C36: when the import of the kernel client library fails, main writes the
\* single line {id: "0", ok: false, error: "jupyter_client missing"} to its
\* output and nothing to stderr, reads no request, opens no channel, and
\* returns 1.
C36_MissingClientLine ==
    proc.imported = "failed" =>
        /\ proc.out = <<MissingClient>>
        /\ proc.errlines = 0
        /\ nread = 0 /\ ndecoded = 0
        /\ ~proc.channel
        /\ proc.pc = "returned" /\ proc.code = 1

C36_Witness ==
    /\ proc.imported = "failed" /\ proc.argv.debug
    /\ proc.pc = "returned" /\ Len(proc.out) = 1

\* C38: the row and column limits the PreviewContext holds, and the
\* effective limits compute passes to the preview engine, are positive after
\* any sequence of preview requests, snapshots and captures.
C38_PositiveLimits ==
    /\ ctx.rows > 0 /\ ctx.cols > 0
    /\ conn.used # NoUse => conn.used.rows > 0 /\ conn.used.cols > 0

\* queue q begins with the paths of queue p, in their order
StartsWithQueue(q, p) == Len(q) >= Len(p) /\ SubSeq(q, 1, Len(p)) = p

\* one turn of the drill-down loop: the first queued path leaves the queue
\* and joins the children at the cost of one unit of budget, and only such a
\* turn adds paths to the queue, behind those that were waiting
TurnConsumes ==
    /\ pass'.remaining = pass.remaining - 1
    /\ pass'.remaining >= 0
    /\ pass'.child_map = pass.child_map \cup {Head(pass.queue)}
    /\ StartsWithQueue(pass'.queue, Tail(pass.queue))

\* the children under way and the children attached are within the budget
WithinBudget ==
    /\ Cardinality(pass.child_map) <= MaxChildPreviews
    /\ pass.pc = "children" => Cardinality(pass.child_map) + pass.remaining <= MaxChildPreviews
    /\ \A v \in DOMAIN pass.entries : Cardinality(pass.entries[v]) <= MaxChildPreviews

\* C39: the drill-down of one variable always ends, also for records that
\* refer to themselves: every turn of the loop removes one queued path,
\* paths are queued only in a turn whose child consumed one unit of budget,
\* and at most 40 child previews are attached to a variable.
C39_DrillDownEnds ==
    /\ [][(pass.pc = "children" /\ pass'.pc = "children") => TurnConsumes]_vars
    /\ []WithinBudget
    /\ (pass.pc = "children") ~> (pass.pc = "vars")

\* a record that refers to itself, drilled down to the end of the budget
C39_Witness ==
    /\ pass.pc = "vars" /\ pass.sh.deep /\ pass.sh.fan1 = 1 /\ pass.sh.fan2 = 1
    /\ \E v \in DOMAIN pass.entries :
          /\ Cardinality(pass.entries[v]) = MaxChildPreviews
          /\ \E p \in pass.entries[v] : Len(p) = MaxChildPreviews + 1

\* C40: whenever ensure_running returns a port, the accept loop is running
\* on that port; after the loop has ended on an accept error, a later
\* ensure_running binds a new socket and starts a new loop instead of
\* returning the port of the dead one.
C40_PortMeansLiveLoop ==
    [][(EnsureRunning /\ obs'.ret # 0) =>
           /\ sthread' \in {"accept", "serving"} /\ ssock' = "bound" /\ sport' = obs'.ret
           /\ sthread = "ended" => obs'.bind = "ok" /\ obs'.threads = obs.threads + 1]_vars

====
